---- MODULE Spec2Model ----
(***************************************************************************)
(* A model of the CHIP-8 toolchain of undecidedapollo/chip8: the opcode    *)
(* codec (core/src/opcodes.rs), the screen (core/src/screen.rs), the       *)
(* interpreter's step function (core/src/cpu.rs), the assembler            *)
(* (assembler/src: lexer.rs, parser.rs, opcodes.rs, resolver.rs) and the   *)
(* key port of the terminal front end (cli/src: cli.rs, main.rs).          *)
(*                                                                         *)
(* The specifications share the variables:                                 *)
(*   SpecCodec  applies the codec to opcode values and to 16-bit words;    *)
(*   Spec       constructs a CPU, loads a program, steps it, resets it;    *)
(*   SpecStack  the recursing programs, also picked up part-way;           *)
(*   SpecAlu, SpecShift, SpecLogic, SpecSkip, SpecKey, SpecDraw, SpecStore,*)
(*   SpecBcd    the same machine, loaded with one family of programs each; *)
(*   SpecKeyLive    SpecKey with a key that is pressed in the end;         *)
(*   SpecScreen     calls draw_sprite, clear and mark_drawn on a Screen;   *)
(*   SpecInput, SpecInputLive   the key-watching thread and the main loop  *)
(*              on the shared key cells, the latter with a fair scheduler; *)
(*   SpecLexer  calls next() of the lexer on a text until it is used up;   *)
(*   SpecLexerLive  the same, the consumer calling next() until None;      *)
(*   SpecParser calls next() of the parser on a token stream;              *)
(*   SpecOperand    applies reg, nn and nnn to operand texts;              *)
(*   SpecAssemble   turns one statement into an opcode and its bytes;      *)
(*   SpecResolver   calls resolve() on a source of parse results.          *)
(***************************************************************************)
EXTENDS Integers, Sequences, FiniteSets, TLC

VARIABLES
    \* ---- codec harness (SpecCodec) ----
    c_phase,        \* "idle" | "encoded" | "op_roundtrip" | "decoded" | "word_roundtrip"
    c_op,           \* the OpCode value handed to encode (NoOp when none)
    c_bytes,        \* the (u8, u8) pair at hand (<<>> when none)
    c_res,          \* Result<OpCode, Chip8Error> of the last decode (NoResult when none)
    c_back,         \* the pair obtained by re-encoding a decoded opcode (<<>> when none)
    \* ---- struct CPU (cpu.rs 58-74) ----
    memory,         \* Box<[u8; 4096]>
    v,              \* [u8; 16]
    i,              \* u16
    timer,          \* u8
    sound,          \* u8
    pc,             \* u16
    stack_ptr,      \* u16
    \* ---- struct Screen (screen.rs 14-17) ----
    buffer,         \* [u8; 256]
    pending_draw,   \* bool
    \* ---- the run ----
    overflow_checks,\* the build profile: TRUE panics on integer overflow, FALSE wraps
    result,         \* what the last call of step() returned (NoStep before any)
    phase,          \* the host: "none" (no CPU) | "new" (constructed or reset) | "loaded"
    last_op,        \* history: the opcode the last step decoded (NoOp when none)
    env,            \* history: what the last step got from the clock, the keys, the rng
    frames,         \* history: the calls not yet returned, newest first: [ret, sp]
    run,            \* history: the current unbroken run of 2NNN/00EE steps
    \* ---- struct Lexer (lexer.rs 15-21) ----
    tokens,         \* the characters the source iterator has not yet yielded
    pending_lex,    \* VecDeque<char>, front first
    lexed,          \* history: the tokens next() has returned so far
    \* ---- struct Parser (parser.rs 21-26) ----
    p_tokens,       \* Peekable<Iterator<Token>>: the tokens not yet consumed
    parsed,         \* history: the parse results next() has returned so far
    \* ---- struct Resolver (resolver.rs 19-28) ----
    iterated,       \* bool
    source,         \* the parse results the source iterator has not yet yielded
    labels,         \* Vec<(String, u16)>
    mem_pins,       \* Vec<MemPin>
    r_data,         \* data: Vec<Statement>
    \* ---- the assembler run ----
    a_phase,        \* "none" | "lexing" | "parsing" | "resolving" | "resolved" | ...
    a_input,        \* history: what the run was given (<<>> when none)
    a_out,          \* what the last call returned (NoResult when none)
    \* ---- struct CLIManager (cli.rs 15-19) and its two threads ----
    pressed_key,        \* Arc<RwLock<Option<u8>>> (NoKey for None)
    pressed_key_event,  \* Arc<RwLock<Option<KeyEvent>>> (NoEvent for None)
    worker,         \* the keyboard thread: where it stands in its loop, and its `hex`
    got,            \* history: what the last get_key() returned (NoKey before any)
    published,      \* history: the key the worker published last and has not yet cleared
    drawn           \* history: the framebuffer at the last mark_drawn() (<<>> when none)

codecVars == <<c_phase, c_op, c_bytes, c_res, c_back>>
cpuVars == <<memory, v, i, timer, sound, pc, stack_ptr>>
screenVars == <<buffer, pending_draw>>
runVars == <<overflow_checks, result, phase, last_op, env, frames, run>>
machineVars == <<cpuVars, screenVars, runVars>>
lexerVars == <<tokens, pending_lex, lexed>>
parserVars == <<p_tokens, parsed>>
resolverVars == <<iterated, source, labels, mem_pins, r_data>>
asmVars == <<lexerVars, parserVars, resolverVars, a_phase, a_input, a_out>>
hostVars == <<pressed_key, pressed_key_event, worker, got, published, drawn>>
vars == <<codecVars, machineVars, asmVars, hostVars>>

(***************************************************************************)
(* Integer helpers: Rust's u8/u16 operators.                               *)
(***************************************************************************)
U8(n) == n % 256
U16(n) == n % 65536

RECURSIVE BitAnd(_, _)
BitAnd(a, b) ==
    IF a = 0 \/ b = 0 THEN 0
    ELSE (a % 2) * (b % 2) + 2 * BitAnd(a \div 2, b \div 2)

RECURSIVE BitOr(_, _)
BitOr(a, b) ==
    IF a = 0 THEN b
    ELSE IF b = 0 THEN a
    ELSE (IF a % 2 = 1 \/ b % 2 = 1 THEN 1 ELSE 0) + 2 * BitOr(a \div 2, b \div 2)

RECURSIVE BitXor(_, _)
BitXor(a, b) ==
    IF a = 0 THEN b
    ELSE IF b = 0 THEN a
    ELSE ((a + b) % 2) + 2 * BitXor(a \div 2, b \div 2)

Shr(a, k) == a \div (2 ^ k)
Shl8(a, k) == U8(a * (2 ^ k))

(***************************************************************************)
(* core/src/opcodes.rs: the OpCode enum and the codec.                     *)
(* An OpCode is a record [op |-> variant name, and the variant's fields].  *)
(***************************************************************************)
NoOp == [op |-> "none"]
NoResult == [ok |-> FALSE, err |-> "none"]

Ok(op_code) == [ok |-> TRUE, op |-> op_code]
InvalidOpcodeError(word) == [ok |-> FALSE, err |-> "InvalidOpcodeError", word |-> word]

Nibble == 0..15
Byte == 0..255
Addr12 == 0..4095

NNNVariants == {"_0NNN", "_1NNN", "_2NNN", "_ANNN", "_BNNN"}
XNNVariants == {"_3XNN", "_4XNN", "_6XNN", "_7XNN", "_CXNN"}
XYVariants == {"_5XY0", "_8XY0", "_8XY1", "_8XY2", "_8XY3", "_8XY4", "_8XY5",
               "_8XY6", "_8XY7", "_8XYE", "_9XY0"}
XVariants == {"_EX9E", "_EXA1", "_FX07", "_FX0A", "_FX15", "_FX18", "_FX1E",
              "_FX29", "_FX33", "_FX55", "_FX65"}

nn(instruction) == U8(BitAnd(instruction, 255))
nnn(instruction) == BitAnd(instruction, 4095)

\* The match of try_from on the nibble tuple: the arms in source order, the first
\* matching arm taken.
try_from_match(char1, char2, char3, char4, instruction) ==
    IF char1 = 0 /\ char2 = 0 /\ char3 = 14 /\ char4 = 0 THEN Ok([op |-> "_00E0"])
    ELSE IF char1 = 0 /\ char2 = 0 /\ char3 = 14 /\ char4 = 14 THEN Ok([op |-> "_00EE"])
    ELSE IF char1 = 0 THEN Ok([op |-> "_0NNN", nnn |-> nnn(instruction)])
    ELSE IF char1 = 1 THEN Ok([op |-> "_1NNN", nnn |-> nnn(instruction)])
    ELSE IF char1 = 2 THEN Ok([op |-> "_2NNN", nnn |-> nnn(instruction)])
    ELSE IF char1 = 3 THEN Ok([op |-> "_3XNN", x |-> char2, nn |-> nn(instruction)])
    ELSE IF char1 = 4 THEN Ok([op |-> "_4XNN", x |-> char2, nn |-> nn(instruction)])
    ELSE IF char1 = 5 /\ char4 = 0 THEN Ok([op |-> "_5XY0", x |-> char2, y |-> char3])
    ELSE IF char1 = 6 THEN Ok([op |-> "_6XNN", x |-> char2, nn |-> nn(instruction)])
    ELSE IF char1 = 7 THEN Ok([op |-> "_7XNN", x |-> char2, nn |-> nn(instruction)])
    ELSE IF char1 = 8 /\ char4 = 0 THEN Ok([op |-> "_8XY0", x |-> char2, y |-> char3])
    ELSE IF char1 = 8 /\ char4 = 1 THEN Ok([op |-> "_8XY1", x |-> char2, y |-> char3])
    ELSE IF char1 = 8 /\ char4 = 2 THEN Ok([op |-> "_8XY2", x |-> char2, y |-> char3])
    ELSE IF char1 = 8 /\ char4 = 3 THEN Ok([op |-> "_8XY3", x |-> char2, y |-> char3])
    ELSE IF char1 = 8 /\ char4 = 4 THEN Ok([op |-> "_8XY4", x |-> char2, y |-> char3])
    ELSE IF char1 = 8 /\ char4 = 5 THEN Ok([op |-> "_8XY5", x |-> char2, y |-> char3])
    ELSE IF char1 = 8 /\ char4 = 6 THEN Ok([op |-> "_8XY6", x |-> char2, y |-> char3])
    ELSE IF char1 = 8 /\ char4 = 7 THEN Ok([op |-> "_8XY7", x |-> char2, y |-> char3])
    ELSE IF char1 = 8 /\ char4 = 14 THEN Ok([op |-> "_8XYE", x |-> char2, y |-> char3])
    ELSE IF char1 = 9 /\ char4 = 0 THEN Ok([op |-> "_9XY0", x |-> char2, y |-> char3])
    ELSE IF char1 = 10 THEN Ok([op |-> "_ANNN", nnn |-> nnn(instruction)])
    ELSE IF char1 = 11 THEN Ok([op |-> "_BNNN", nnn |-> nnn(instruction)])
    ELSE IF char1 = 12 THEN Ok([op |-> "_CXNN", x |-> char2, nn |-> nn(instruction)])
    ELSE IF char1 = 13 THEN Ok([op |-> "_DXYN", x |-> char2, y |-> char3, n |-> char4])
    ELSE IF char1 = 14 /\ char3 = 9 /\ char4 = 14 THEN Ok([op |-> "_EX9E", x |-> char2])
    ELSE IF char1 = 14 /\ char3 = 10 /\ char4 = 1 THEN Ok([op |-> "_EXA1", x |-> char2])
    ELSE IF char1 = 15 /\ char3 = 0 /\ char4 = 7 THEN Ok([op |-> "_FX07", x |-> char2])
    ELSE IF char1 = 15 /\ char3 = 0 /\ char4 = 10 THEN Ok([op |-> "_FX0A", x |-> char2])
    ELSE IF char1 = 15 /\ char3 = 1 /\ char4 = 5 THEN Ok([op |-> "_FX15", x |-> char2])
    ELSE IF char1 = 15 /\ char3 = 1 /\ char4 = 8 THEN Ok([op |-> "_FX18", x |-> char2])
    ELSE IF char1 = 15 /\ char3 = 1 /\ char4 = 14 THEN Ok([op |-> "_FX1E", x |-> char2])
    ELSE IF char1 = 15 /\ char3 = 2 /\ char4 = 9 THEN Ok([op |-> "_FX29", x |-> char2])
    ELSE IF char1 = 15 /\ char3 = 3 /\ char4 = 3 THEN Ok([op |-> "_FX33", x |-> char2])
    ELSE IF char1 = 15 /\ char3 = 5 /\ char4 = 5 THEN Ok([op |-> "_FX55", x |-> char2])
    ELSE IF char1 = 15 /\ char3 = 6 /\ char4 = 5 THEN Ok([op |-> "_FX65", x |-> char2])
    ELSE InvalidOpcodeError(instruction)

\* A plausible slip in try_from: the SYS arm placed above the CLS and RET arms.
try_from_sys_first(op1, op2) ==
    LET instruction == op1 * 256 + op2
    IN  IF Shr(op1, 4) = 0 THEN Ok([op |-> "_0NNN", nnn |-> nnn(instruction)])
        ELSE try_from_match(Shr(op1, 4), BitAnd(op1, 15), Shr(op2, 4), BitAnd(op2, 15),
                            instruction)

\* impl TryFrom<(u8, u8)> for OpCode
try_from(op1, op2) ==
    LET char1 == Shr(op1, 4)
        char2 == BitAnd(op1, 15)
        char3 == Shr(op2, 4)
        char4 == BitAnd(op2, 15)
        instruction == op1 * 256 + op2
    IN  try_from_match(char1, char2, char3, char4, instruction)

left_bit(hex) == Shl8(hex, 4)

\* impl From<OpCode> for (u8, u8)
from(op_code) ==
    LET k == op_code.op
        hi_nnn(c) == BitOr(left_bit(c), U8(Shr(op_code.nnn, 8)))
        hi_x(c) == BitOr(left_bit(c), op_code.x)
        lo_y(c) == BitOr(left_bit(op_code.y), c)
    IN  CASE k = "_00E0" -> <<BitAnd(left_bit(0), 0), 14>>
          [] k = "_00EE" -> <<BitAnd(left_bit(0), 0), 238>>
          [] k = "_0NNN" -> <<hi_nnn(0), U8(op_code.nnn)>>
          [] k = "_1NNN" -> <<hi_nnn(1), U8(op_code.nnn)>>
          [] k = "_2NNN" -> <<hi_nnn(2), U8(op_code.nnn)>>
          [] k = "_3XNN" -> <<hi_x(3), op_code.nn>>
          [] k = "_4XNN" -> <<hi_x(4), op_code.nn>>
          [] k = "_5XY0" -> <<hi_x(5), left_bit(op_code.y)>>
          [] k = "_6XNN" -> <<hi_x(6), op_code.nn>>
          [] k = "_7XNN" -> <<hi_x(7), op_code.nn>>
          [] k = "_8XY0" -> <<hi_x(8), left_bit(op_code.y)>>
          [] k = "_8XY1" -> <<hi_x(8), lo_y(1)>>
          [] k = "_8XY2" -> <<hi_x(8), lo_y(2)>>
          [] k = "_8XY3" -> <<hi_x(8), lo_y(3)>>
          [] k = "_8XY4" -> <<hi_x(8), lo_y(4)>>
          [] k = "_8XY5" -> <<hi_x(8), lo_y(5)>>
          [] k = "_8XY6" -> <<hi_x(8), lo_y(6)>>
          [] k = "_8XY7" -> <<hi_x(8), lo_y(7)>>
          [] k = "_8XYE" -> <<hi_x(8), lo_y(14)>>
          [] k = "_9XY0" -> <<hi_x(9), left_bit(op_code.y)>>
          [] k = "_ANNN" -> <<hi_nnn(10), U8(op_code.nnn)>>
          [] k = "_BNNN" -> <<hi_nnn(11), U8(op_code.nnn)>>
          [] k = "_CXNN" -> <<hi_x(12), op_code.nn>>
          [] k = "_DXYN" -> <<hi_x(13), lo_y(op_code.n)>>
          [] k = "_EX9E" -> <<hi_x(14), 158>>
          [] k = "_EXA1" -> <<hi_x(14), 161>>
          [] k = "_FX07" -> <<hi_x(15), 7>>
          [] k = "_FX0A" -> <<hi_x(15), 10>>
          [] k = "_FX15" -> <<hi_x(15), 21>>
          [] k = "_FX18" -> <<hi_x(15), 24>>
          [] k = "_FX1E" -> <<hi_x(15), 30>>
          [] k = "_FX29" -> <<hi_x(15), 41>>
          [] k = "_FX33" -> <<hi_x(15), 51>>
          [] k = "_FX55" -> <<hi_x(15), 85>>
          [] k = "_FX65" -> <<hi_x(15), 101>>

\* impl From<OpCode> for u16
u16_from(op_code) ==
    LET res == from(op_code) IN res[1] * 256 + res[2]

(***************************************************************************)
(* core/src/screen.rs: the 64x32 framebuffer, 8 pixels per byte.           *)
(***************************************************************************)
SCREEN_WIDTH == 64
SCREEN_HEIGHT == 32
SCREEN_BUFFER_SIZE_FULL == SCREEN_WIDTH * SCREEN_HEIGHT
SCREEN_BUFFER_SIZE_COMPRESSED == SCREEN_BUFFER_SIZE_FULL \div 8

BlankBuffer == [a \in 0..(SCREEN_BUFFER_SIZE_COMPRESSED - 1) |-> 0]

\* The two nested loops of draw_sprite, flattened: k counts (row, bit) pairs.
\* x is the wrapped column, y the wrapped row times SCREEN_WIDTH.
RECURSIVE draw_loop(_, _, _, _, _, _)
draw_loop(buf, x, y, sprite, k, was_unset) ==
    IF k >= 8 * Len(sprite) THEN [buffer |-> buf, ret |-> was_unset]
    ELSE
        LET row == k \div 8
            bit == k % 8
            row_offset == row * SCREEN_WIDTH
            index == (y + row_offset + (x + bit)) \div 8
            bit_offset == (x + bit) % 8
            mask == Shl8(1, 7 - bit_offset)
        IN  IF index >= SCREEN_BUFFER_SIZE_COMPRESSED
            THEN [buffer |-> buf, ret |-> FALSE]
            ELSE
                LET val_before == BitAnd(buf[index], mask) # 0
                    sprite_mask == Shl8(1, 7 - bit)
                    sprite_val == Shr(BitAnd(sprite[row + 1], sprite_mask), 7 - bit)
                    sprite_adjusted == Shl8(sprite_val, 7 - bit_offset)
                    new_byte == BitXor(buf[index], BitAnd(mask, sprite_adjusted))
                    val_after == BitAnd(new_byte, mask) # 0
                IN  draw_loop([buf EXCEPT ![index] = new_byte], x, y, sprite, k + 1,
                              was_unset \/ (val_before /\ ~val_after))

\* Screen::draw_sprite: the new buffer, the dirty flag and the returned flag.
draw_sprite(buf, x, y, sprite) ==
    LET r == draw_loop(buf, x % SCREEN_WIDTH, (y % SCREEN_HEIGHT) * SCREEN_WIDTH,
                       sprite, 0, FALSE)
    IN  [buffer |-> r.buffer, pending_draw |-> TRUE, ret |-> r.ret]

\* Screen::clear
clear(buf) == [a \in DOMAIN buf |-> 0]

(***************************************************************************)
(* core/src/cpu.rs: construction, reset, load_program.                     *)
(***************************************************************************)
PGRM_LOAD_START_ADDR == 512
FONT_START_ADDR == 80
MEMORY_SIZE == 4096
STACK_TOP == 4095

FONT_BUFFER == <<
    240, 144, 144, 144, 240,
    32, 96, 32, 32, 112,
    240, 16, 240, 128, 240,
    240, 16, 240, 16, 240,
    144, 144, 240, 16, 16,
    240, 128, 240, 16, 240,
    240, 128, 240, 144, 240,
    240, 16, 32, 64, 64,
    240, 144, 240, 144, 240,
    240, 144, 240, 16, 240,
    240, 144, 240, 144, 144,
    224, 144, 224, 144, 224,
    240, 128, 128, 128, 240,
    224, 144, 144, 144, 224,
    240, 128, 240, 128, 240,
    240, 128, 240, 128, 128 >>

\* memory[start..].write_all(data): data copied over the bytes from start on.
RECURSIVE write_all(_, _, _)
write_all(mem, start, data) ==
    IF data = <<>> THEN mem
    ELSE write_all([mem EXCEPT ![start] = Head(data)], start + 1, Tail(data))

\* The machine: the fields of CPU and of the Screen it drives, as one record.
\* CPU::new
new ==
    [memory |-> write_all([a \in 0..(MEMORY_SIZE - 1) |-> 0], FONT_START_ADDR, FONT_BUFFER),
     v |-> [r \in 0..15 |-> 0],
     i |-> 0,
     timer |-> 0,
     sound |-> 0,
     pc |-> 512,
     stack_ptr |-> STACK_TOP,
     buffer |-> BlankBuffer,
     pending_draw |-> FALSE]

\* CPU::reset
reset(m) ==
    [m EXCEPT !.pc = 512,
              !.stack_ptr = STACK_TOP,
              !.memory = [a \in DOMAIN m.memory |-> 0],
              !.v = [r \in DOMAIN m.v |-> 0],
              !.i = 0,
              !.timer = 0,
              !.sound = 0,
              !.buffer = clear(m.buffer)]

\* CPU::load_program (load_into_memory at PGRM_LOAD_START_ADDR)
load_program(m, data) ==
    [m EXCEPT !.memory = write_all(m.memory, PGRM_LOAD_START_ADDR, data)]

\* test.rs u16_to_u8: a program given as 16-bit words, as bytes, high byte first.
RECURSIVE u16_to_u8(_)
u16_to_u8(data) ==
    IF data = <<>> THEN <<>>
    ELSE <<Shr(BitAnd(Head(data), 65280), 8), BitAnd(Head(data), 255)>>
         \o u16_to_u8(Tail(data))

(***************************************************************************)
(* core/src/cpu.rs: step.  Each arm of the match is an operator from the   *)
(* machine to an outcome [m, res]: res is Ok(true), Ok(false), an error    *)
(* of Chip8Error, or a panic (an index out of bounds in any build, an      *)
(* integer overflow in a build with overflow checks).  A panic aborts the  *)
(* process: the machine is left as it was when the step was entered.       *)
(***************************************************************************)
NoKey == -1

\* Option<KeyEvent>::None; a key event is [key, code], code 0..15 for a hex digit.
NoEvent == [key |-> FALSE, code |-> NoKey]

OkTrue(m) == [m |-> m, res |-> [ok |-> TRUE, inc |-> TRUE]]
OkFalse(m) == [m |-> m, res |-> [ok |-> TRUE, inc |-> FALSE]]
Err(m, e) == [m |-> m, res |-> e]
PanicResult == [ok |-> FALSE, err |-> "panic"]
Panic(m) == [m |-> m, res |-> PanicResult]
UnimplementedOpcodeError(op_code) ==
    [ok |-> FALSE, err |-> "UnimplementedOpcodeError", op |-> op_code]
StackUnderflowError == [ok |-> FALSE, err |-> "StackUnderflowError"]

\* v.set(index, value)
set(regs, index, value) == [regs EXCEPT ![index] = value]

\* A u16 addition or subtraction whose exact value is n: does it overflow?
Overflows(n) == n < 0 \/ n > 65535

\* A plausible slip in 0NNN: reporting the opcode after moving past it.
step_0NNN_advances(m, op_code) ==
    Err([m EXCEPT !.pc = U16(@ + 2)], UnimplementedOpcodeError(op_code))

step_0NNN(m, op_code) == Err(m, UnimplementedOpcodeError(op_code))

step_00E0(m) == OkTrue([m EXCEPT !.buffer = clear(m.buffer)])

step_00EE(m, oc) ==
    LET a1 == U16(m.stack_ptr + 1)
        a2 == U16(m.stack_ptr + 2)
    IN  IF (oc /\ Overflows(m.stack_ptr + 1)) \/ a1 >= MEMORY_SIZE
           \/ (oc /\ Overflows(m.stack_ptr + 2)) \/ a2 >= MEMORY_SIZE
        THEN Panic(m)
        ELSE
            LET left == U16(m.memory[a1] * 256)
                right == m.memory[a2]
                m1 == [m EXCEPT !.pc = BitOr(left, right)]
            IN  IF m.stack_ptr = 4095 THEN Err(m1, StackUnderflowError)
                ELSE OkFalse([m1 EXCEPT !.stack_ptr = U16(m.stack_ptr + 2)])

step_1NNN(m, addr) == OkFalse([m EXCEPT !.pc = addr])

\* A plausible slip in 2NNN: the address of the call pushed, not the one after it.
step_2NNN_pushes_pc(m, addr, oc) ==
    LET a1 == U16(m.stack_ptr - 1)
    IN  IF (oc /\ Overflows(m.stack_ptr - 1)) \/ a1 >= MEMORY_SIZE
           \/ m.stack_ptr >= MEMORY_SIZE
           \/ (oc /\ Overflows(m.stack_ptr - 2))
        THEN Panic(m)
        ELSE OkFalse([m EXCEPT
                 !.memory = [@ EXCEPT ![a1] = U8(Shr(m.pc, 8)), ![m.stack_ptr] = U8(m.pc)],
                 !.stack_ptr = U16(m.stack_ptr - 2),
                 !.pc = addr])

step_2NNN(m, addr, oc) ==
    LET pc_to_push == U16(m.pc + 2)
        left == U8(Shr(pc_to_push, 8))
        right == U8(pc_to_push)
        a1 == U16(m.stack_ptr - 1)
    IN  IF (oc /\ Overflows(m.pc + 2))
           \/ (oc /\ Overflows(m.stack_ptr - 1)) \/ a1 >= MEMORY_SIZE
           \/ m.stack_ptr >= MEMORY_SIZE
           \/ (oc /\ Overflows(m.stack_ptr - 2))
        THEN Panic(m)
        ELSE OkFalse([m EXCEPT
                 !.memory = [@ EXCEPT ![a1] = left, ![m.stack_ptr] = right],
                 !.stack_ptr = U16(m.stack_ptr - 2),
                 !.pc = addr])

\* The skips add 2 to pc themselves; step adds the other 2.
skip_if(m, cond, oc) ==
    IF ~cond THEN OkTrue(m)
    ELSE IF oc /\ Overflows(m.pc + 2) THEN Panic(m)
    ELSE OkTrue([m EXCEPT !.pc = U16(m.pc + 2)])

step_3XNN(m, x, b, oc) == skip_if(m, m.v[x] = b, oc)

\* A plausible slip in 4XNN: the test of 3XNN.
step_4XNN_skips_on_equal(m, x, b, oc) == skip_if(m, m.v[x] = b, oc)

step_4XNN(m, x, b, oc) == skip_if(m, m.v[x] # b, oc)
step_5XY0(m, x, y, oc) == skip_if(m, m.v[x] = m.v[y], oc)
step_9XY0(m, x, y, oc) == skip_if(m, m.v[x] # m.v[y], oc)

step_6XNN(m, x, b) == OkTrue([m EXCEPT !.v = set(@, x, b)])
step_7XNN(m, x, b) == OkTrue([m EXCEPT !.v = set(@, x, U8(m.v[x] + b))])
step_8XY0(m, x, y) == OkTrue([m EXCEPT !.v = set(@, x, m.v[y])])

\* A plausible slip in 8XY1: the variant that leaves VF alone.
step_8XY1_keeps_flag(m, x, y) ==
    OkTrue([m EXCEPT !.v = set(@, x, BitOr(m.v[x], m.v[y]))])

step_8XY1(m, x, y) ==
    OkTrue([m EXCEPT !.v = set(set(@, x, BitOr(m.v[x], m.v[y])), 15, 0)])
step_8XY2(m, x, y) ==
    OkTrue([m EXCEPT !.v = set(set(@, x, BitAnd(m.v[x], m.v[y])), 15, 0)])
step_8XY3(m, x, y) ==
    OkTrue([m EXCEPT !.v = set(set(@, x, BitXor(m.v[x], m.v[y])), 15, 0)])

\* A plausible slip in 8XY4: the flag stored before the sum, so that the sum wins in VF.
step_8XY4_flag_first(m, x, y) ==
    LET res == m.v[x] + m.v[y]
    IN  OkTrue([m EXCEPT !.v = set(set(@, 15, U8(Shr(BitAnd(res, 256), 8))), x, U8(res))])

step_8XY4(m, x, y) ==
    LET xval == m.v[x]
        yval == m.v[y]
        res == xval + yval
    IN  OkTrue([m EXCEPT !.v = set(set(@, x, U8(res)), 15, U8(Shr(BitAnd(res, 256), 8)))])

\* A plausible slip in 8XY5: equal operands taken for a borrow.
step_8XY5_borrow_on_equal(m, x, y) ==
    LET xval == m.v[x]
        yval == m.v[y]
        res == U16(xval - yval)
    IN  OkTrue([m EXCEPT !.v = set(set(@, x, U8(res)), 15, IF yval >= xval THEN 0 ELSE 1)])

step_8XY5(m, x, y) ==
    LET xval == m.v[x]
        yval == m.v[y]
        res == U16(xval - yval)
    IN  OkTrue([m EXCEPT !.v = set(set(@, x, U8(res)), 15, IF yval > xval THEN 0 ELSE 1)])

\* A plausible slip in 8XY6: the variant that shifts V[x] in place.
step_8XY6_shifts_vx(m, x, y) ==
    LET xval == m.v[x]
    IN  OkTrue([m EXCEPT !.v = set(set(@, x, Shr(xval, 1)), 15, BitAnd(xval, 1))])

step_8XY6(m, x, y) ==
    LET yval == m.v[y]
    IN  OkTrue([m EXCEPT !.v = set(set(@, x, Shr(yval, 1)), 15, BitAnd(yval, 1))])

\* A plausible slip in 8XY7: the operands in the order of 8XY5.
step_8XY7_as_8XY5(m, x, y) ==
    LET xval == m.v[x]
        yval == m.v[y]
        res == U16(xval - yval)
    IN  OkTrue([m EXCEPT !.v = set(set(@, x, U8(res)), 15, IF yval > xval THEN 0 ELSE 1)])

step_8XY7(m, x, y) ==
    LET xval == m.v[x]
        yval == m.v[y]
        res == U16(yval - xval)
    IN  OkTrue([m EXCEPT !.v = set(set(@, x, U8(res)), 15, IF xval > yval THEN 0 ELSE 1)])

step_8XYE(m, x, y) ==
    LET yval == m.v[y]
    IN  OkTrue([m EXCEPT !.v = set(set(@, x, Shl8(yval, 1)), 15, Shr(yval, 7))])

step_ANNN(m, addr) == OkTrue([m EXCEPT !.i = addr])

step_BNNN(m, addr, oc) ==
    IF oc /\ Overflows(addr + m.v[0]) THEN Panic(m)
    ELSE OkTrue([m EXCEPT !.pc = U16(addr + m.v[0])])

step_CXNN(m, x, b, val) == OkTrue([m EXCEPT !.v = set(@, x, BitAnd(val, b))])

step_DXYN(m, x, y, n) ==
    LET mem_start == m.i
        mem_end == mem_start + n
    IN  IF mem_end > MEMORY_SIZE THEN Panic(m)
        ELSE
            LET memslice == [k \in 1..n |-> m.memory[mem_start + k - 1]]
                d == draw_sprite(m.buffer, m.v[x], m.v[y], memslice)
            IN  OkTrue([m EXCEPT !.buffer = d.buffer,
                                 !.pending_draw = d.pending_draw,
                                 !.v = set(@, 15, IF d.ret THEN 1 ELSE 0)])

step_EX9E(m, x, key, oc) == skip_if(m, key = m.v[x], oc)
step_EXA1(m, x, key, oc) == skip_if(m, key # m.v[x], oc)

step_FX07(m, x) == OkTrue([m EXCEPT !.v = set(@, x, m.timer)])

\* A plausible slip in FX0A: no wait, the step moves on without a key.
step_FX0A_no_wait(m, x, key) ==
    IF key # NoKey THEN OkTrue([m EXCEPT !.v = set(@, x, key)]) ELSE OkTrue(m)

\* A plausible slip in the FX0A arm: the wait ends, the key is not stored.
step_FX0A_drops_key(m, x, key) ==
    IF key # NoKey THEN OkTrue(m) ELSE OkFalse(m)

step_FX0A(m, x, key) ==
    IF key # NoKey THEN OkTrue([m EXCEPT !.v = set(@, x, key)]) ELSE OkFalse(m)

step_FX15(m, x) == OkTrue([m EXCEPT !.timer = m.v[x]])
step_FX18(m, x) == OkTrue([m EXCEPT !.sound = m.v[x]])

step_FX1E(m, x, oc) ==
    IF oc /\ Overflows(m.i + m.v[x]) THEN Panic(m)
    ELSE OkTrue([m EXCEPT !.i = U16(m.i + m.v[x])])

step_FX29(m, x) ==
    LET vs == m.v[x] % 16
    IN  OkTrue([m EXCEPT !.i = FONT_START_ADDR + vs * 5])

\* A plausible slip in FX33: the tens digit without its reduction modulo 10.
step_FX33_tens_unreduced(m, x) ==
    LET val == m.v[x]
    IN  IF m.i + 2 >= MEMORY_SIZE THEN Panic(m)
        ELSE OkTrue([m EXCEPT !.memory = [@ EXCEPT ![m.i] = val \div 100,
                                                   ![m.i + 1] = val \div 10,
                                                   ![m.i + 2] = val % 10]])

step_FX33(m, x) ==
    LET val == m.v[x]
    IN  IF m.i + 2 >= MEMORY_SIZE THEN Panic(m)
        ELSE OkTrue([m EXCEPT !.memory = [@ EXCEPT ![m.i] = val \div 100,
                                                   ![m.i + 1] = (val \div 10) % 10,
                                                   ![m.i + 2] = val % 10]])

\* The loops of FX55 and FX65 touch memory[i + reg] for reg in 0..=x; i + reg is a
\* u16 sum, and the first index at or past MEMORY_SIZE panics.
\* A plausible slip in FX55: the variant that leaves I where it was.
step_FX55_keeps_I(m, x) ==
    IF m.i + x >= MEMORY_SIZE THEN Panic(m)
    ELSE OkTrue([m EXCEPT
             !.memory = [a \in DOMAIN @ |->
                            IF a >= m.i /\ a <= m.i + x THEN m.v[a - m.i] ELSE @[a]]])

step_FX55(m, x) ==
    IF m.i + x >= MEMORY_SIZE THEN Panic(m)
    ELSE OkTrue([m EXCEPT
             !.memory = [a \in DOMAIN @ |->
                            IF a >= m.i /\ a <= m.i + x THEN m.v[a - m.i] ELSE @[a]],
             !.i = m.i + x + 1])

step_FX65(m, x) ==
    IF m.i + x >= MEMORY_SIZE THEN Panic(m)
    ELSE OkTrue([m EXCEPT
             !.v = [r \in DOMAIN @ |-> IF r <= x THEN m.memory[m.i + r] ELSE @[r]],
             !.i = m.i + x + 1])

\* The match of step on the decoded opcode.
execute(m, op_code, oc, key, val) ==
    LET k == op_code.op
    IN  CASE k = "_0NNN" -> step_0NNN(m, op_code)
          [] k = "_00E0" -> step_00E0(m)
          [] k = "_00EE" -> step_00EE(m, oc)
          [] k = "_1NNN" -> step_1NNN(m, op_code.nnn)
          [] k = "_2NNN" -> step_2NNN(m, op_code.nnn, oc)
          [] k = "_3XNN" -> step_3XNN(m, op_code.x, op_code.nn, oc)
          [] k = "_4XNN" -> step_4XNN(m, op_code.x, op_code.nn, oc)
          [] k = "_5XY0" -> step_5XY0(m, op_code.x, op_code.y, oc)
          [] k = "_6XNN" -> step_6XNN(m, op_code.x, op_code.nn)
          [] k = "_7XNN" -> step_7XNN(m, op_code.x, op_code.nn)
          [] k = "_8XY0" -> step_8XY0(m, op_code.x, op_code.y)
          [] k = "_8XY1" -> step_8XY1(m, op_code.x, op_code.y)
          [] k = "_8XY2" -> step_8XY2(m, op_code.x, op_code.y)
          [] k = "_8XY3" -> step_8XY3(m, op_code.x, op_code.y)
          [] k = "_8XY4" -> step_8XY4(m, op_code.x, op_code.y)
          [] k = "_8XY5" -> step_8XY5(m, op_code.x, op_code.y)
          [] k = "_8XY6" -> step_8XY6(m, op_code.x, op_code.y)
          [] k = "_8XY7" -> step_8XY7(m, op_code.x, op_code.y)
          [] k = "_8XYE" -> step_8XYE(m, op_code.x, op_code.y)
          [] k = "_9XY0" -> step_9XY0(m, op_code.x, op_code.y, oc)
          [] k = "_ANNN" -> step_ANNN(m, op_code.nnn)
          [] k = "_BNNN" -> step_BNNN(m, op_code.nnn, oc)
          [] k = "_CXNN" -> step_CXNN(m, op_code.x, op_code.nn, val)
          [] k = "_DXYN" -> step_DXYN(m, op_code.x, op_code.y, op_code.n)
          [] k = "_EX9E" -> step_EX9E(m, op_code.x, key, oc)
          [] k = "_EXA1" -> step_EXA1(m, op_code.x, key, oc)
          [] k = "_FX07" -> step_FX07(m, op_code.x)
          [] k = "_FX0A" -> step_FX0A(m, op_code.x, key)
          [] k = "_FX15" -> step_FX15(m, op_code.x)
          [] k = "_FX18" -> step_FX18(m, op_code.x)
          [] k = "_FX1E" -> step_FX1E(m, op_code.x, oc)
          [] k = "_FX29" -> step_FX29(m, op_code.x)
          [] k = "_FX33" -> step_FX33(m, op_code.x)
          [] k = "_FX55" -> step_FX55(m, op_code.x)
          [] k = "_FX65" -> step_FX65(m, op_code.x)

\* A plausible slip in the timer maintenance: decrementing without the test for
\* zero, so that a u8 at 0 wraps to 255 (as wrapping_sub would).
timer_tick_wrapping(m, tick) ==
    IF tick
    THEN [m EXCEPT !.timer = U8(@ + 255), !.sound = U8(@ + 255)]
    ELSE m

\* The timer maintenance at the head of step; tick says whether 16 ms have elapsed.
timer_tick(m, tick) ==
    IF tick
    THEN [m EXCEPT !.timer = IF @ > 0 THEN @ - 1 ELSE @,
                   !.sound = IF @ > 0 THEN @ - 1 ELSE @]
    ELSE m

\* Chip8CPU::step: the machine after the call, what the call returned, and the
\* opcode it decoded.
step(m0, oc, tick, key, val) ==
    LET m == timer_tick(m0, tick)
    IN  IF m.pc >= MEMORY_SIZE \/ m.pc + 1 >= MEMORY_SIZE
        THEN [m |-> m, res |-> PanicResult, op |-> NoOp]
        ELSE
            LET op1 == m.memory[m.pc]
                op2 == m.memory[m.pc + 1]
                opcode == try_from(op1, op2)
            IN  IF ~opcode.ok THEN [m |-> m, res |-> opcode, op |-> NoOp]
                ELSE
                    LET o == execute(m, opcode.op, oc, key, val)
                    IN  IF ~o.res.ok
                        THEN [m |-> IF o.res = PanicResult THEN m ELSE o.m,
                              res |-> o.res, op |-> opcode.op]
                        ELSE IF ~o.res.inc
                        THEN [m |-> o.m, res |-> [ok |-> TRUE], op |-> opcode.op]
                        ELSE IF oc /\ Overflows(o.m.pc + 2)
                        THEN [m |-> m, res |-> PanicResult, op |-> opcode.op]
                        ELSE [m |-> [o.m EXCEPT !.pc = U16(@ + 2)],
                              res |-> [ok |-> TRUE], op |-> opcode.op]

(***************************************************************************)
(* The machine as state: the variables hold the fields of the record.      *)
(***************************************************************************)
NoStep == [ok |-> FALSE, err |-> "none"]
StepOk == [ok |-> TRUE]
NoRun == [open |-> 0, closed |-> 0]
NoEnv == [tick |-> FALSE, key |-> NoKey, val |-> 0]

Machine ==
    [memory |-> memory, v |-> v, i |-> i, timer |-> timer, sound |-> sound,
     pc |-> pc, stack_ptr |-> stack_ptr, buffer |-> buffer,
     pending_draw |-> pending_draw]

SetMachine(m) ==
    /\ memory' = m.memory
    /\ v' = m.v
    /\ i' = m.i
    /\ timer' = m.timer
    /\ sound' = m.sound
    /\ pc' = m.pc
    /\ stack_ptr' = m.stack_ptr
    /\ buffer' = m.buffer
    /\ pending_draw' = m.pending_draw

\* What the environment can hand to one step: whether the 16 ms timer period has
\* elapsed, the key get_key() returns, the byte the random generator draws.
MaxKey == 1
KeyInputs == {NoKey} \cup {k \in 0..15 : k <= MaxKey \/ k = 15}
RandInputs == {0, 85, 255}

(***************************************************************************)
(* Programs.  A program is a sequence of 16-bit words, loaded at 0x200.    *)
(***************************************************************************)
MaxDepth == 3

\* d nested calls, then d returns: the call at 0x200 + 4k targets 0x200 + 4(k+1),
\* the word after each call is the RET that unwinds one level further, the
\* outermost call returns to a jump-to-self at 0x202.
CallChain(d) ==
    [j \in 1..(2 * d + 1) |->
        IF j = 2 THEN 4610
        ELSE IF j % 2 = 1 /\ j < 2 * d + 1 THEN 8192 + 512 + 2 * (j + 1)
        ELSE 238]

\* CALL 0x206; JUMP 0x202; (unused); LOAD V0, 5; RET: a call whose body is not a bare RET.
CallBody == <<8710, 4610, 0, 24581, 238>>

\* RET with nothing on the stack.
BareReturn == <<238>>

\* Jumps to the top of memory: JUMP 0xFFF; JUMPI 0xFFF; LOAD V0, 0xFF then JUMPI 0xFFF.
JumpTop == <<8191>>
JumpITop == <<49151>>
JumpIOffsetTop == <<24831, 49151>>

\* LOADI 0xFFE; LOAD V0, 0x60; LOAD V1, 0; STOR V1; JUMP 0xFFE: plants LOAD V0, 0 in the
\* last two bytes of memory and runs it.
RunOffTop == <<45054, 24672, 24832, 61781, 8190>>

\* LOADI 0; LOAD V0, 0x20; LOAD V1, 0; STOR V1; JUMP 0: plants CALL 0 at address 0 and
\* runs it, a recursion that never returns.
DeepRecursion == <<40960, 24608, 24832, 61781, 4096>>

\* CALL 0x200 at 0x200: the same recursion, from the program area.
SelfCall == <<8704>>

\* LOAD V0, 5 and then a word no row of the decode table matches (0x8ABF), or a
\* call of a machine-language routine (0x0123).
InvalidWord == <<24581, 35519>>
SysCall == <<24581, 291>>

\* LOADI 0x050; LOAD V0, 7; STOR V0; a jump-to-self: a store at the font's address.
FontStore == <<41040, 24583, 61525, 4614>>

\* LOADI 0xFFF; LOAD V0, 1; ADDI V0; a jump-to-self: I is moved past the top of memory.
IndexPastTop == <<45055, 24577, 61470, 4614>>

Programs ==
    {CallChain(d) : d \in 1..MaxDepth}
    \cup {CallBody, BareReturn, JumpTop, JumpITop, JumpIOffsetTop, RunOffTop, SelfCall,
          InvalidWord, SysCall, FontStore, IndexPastTop}

\* The programs that recurse without returning.
StackPrograms == {DeepRecursion, SelfCall}

\* Arithmetic programs: LOAD Vx, a; LOAD Vy, b; then 8XYk.
\* Operand bytes lie within MaxEdge of 0, of 128 and of 255; the registers are
\* two ordinary ones and the flag register.
MaxEdge == 1
ByteInputs ==
    {b \in 0..255 : \/ b < MaxEdge
                    \/ b >= 256 - MaxEdge
                    \/ (b >= 128 - MaxEdge /\ b < 128 + MaxEdge)}
RegInputs == {0, 1, 15}
AluKinds == {4, 5, 7}

AluProgram(k, x, y, a, b) ==
    <<24576 + x * 256 + a, 24576 + y * 256 + b, 32768 + x * 256 + y * 16 + k>>

AluPrograms ==
    {AluProgram(k, x, y, a, b) :
        k \in AluKinds, x \in RegInputs, y \in RegInputs, a \in ByteInputs, b \in ByteInputs}

(***************************************************************************)
(* Actions of the machine.                                                 *)
(***************************************************************************)
CodecIdle ==
    /\ c_phase = "idle"
    /\ c_op = NoOp
    /\ c_bytes = <<>>
    /\ c_res = NoResult
    /\ c_back = <<>>

\* No assembler run is under way.
AsmIdle ==
    /\ tokens = <<>>
    /\ pending_lex = <<>>
    /\ lexed = <<>>
    /\ p_tokens = <<>>
    /\ parsed = <<>>
    /\ iterated = FALSE
    /\ source = <<>>
    /\ labels = <<>>
    /\ mem_pins = <<>>
    /\ r_data = <<>>
    /\ a_phase = "none"
    /\ a_input = <<>>
    /\ a_out = NoResult

\* No terminal host is running.
HostIdle ==
    /\ pressed_key = NoKey
    /\ pressed_key_event = NoEvent
    /\ worker = [at |-> "none"]
    /\ got = NoKey
    /\ published = NoKey
    /\ drawn = <<>>

\* CPU::new on a fresh Screen, in either build profile.
Init ==
    /\ CodecIdle
    /\ AsmIdle
    /\ HostIdle
    /\ memory = new.memory
    /\ v = new.v
    /\ i = new.i
    /\ timer = new.timer
    /\ sound = new.sound
    /\ pc = new.pc
    /\ stack_ptr = new.stack_ptr
    /\ buffer = new.buffer
    /\ pending_draw = new.pending_draw
    /\ overflow_checks \in BOOLEAN
    /\ result = NoStep
    /\ phase = "new"
    /\ last_op = NoOp
    /\ env = NoEnv
    /\ frames = <<>>
    /\ run = NoRun

\* cpu.load_program(bytes) on a constructed or reset CPU.
LoadProgram(programs) ==
    /\ phase = "new"
    /\ result # PanicResult
    /\ \E p \in programs :
          \E m \in {load_program(Machine, u16_to_u8(p))} : SetMachine(m)
    /\ phase' = "loaded"
    /\ last_op' = NoOp
    /\ env' = NoEnv
    /\ UNCHANGED <<overflow_checks, result, frames, run, codecVars, asmVars, hostVars>>

\* The history of calls: a 2NNN that succeeded pushes the frame it must return to,
\* a 00EE that succeeded pops one; run counts the calls still open and the returns
\* made in the current unbroken run of call and return steps.
frames_after(fr, m, o) ==
    IF ~o.res.ok THEN fr
    ELSE IF o.op.op = "_2NNN" THEN <<[ret |-> m.pc + 2, sp |-> m.stack_ptr]>> \o fr
    ELSE IF o.op.op = "_00EE" /\ fr # <<>> THEN Tail(fr)
    ELSE fr

run_after(rn, o) ==
    IF ~o.res.ok THEN NoRun
    ELSE IF o.op.op = "_2NNN" THEN [rn EXCEPT !.open = @ + 1]
    ELSE IF o.op.op = "_00EE" /\ rn.open > 0
         THEN [open |-> rn.open - 1, closed |-> rn.closed + 1]
    ELSE NoRun

\* The opcode the next step will fetch and decode (NoResult when the fetch faults).
fetched ==
    IF pc + 1 < MEMORY_SIZE THEN try_from(memory[pc], memory[pc + 1]) ELSE NoResult

\* The environment is consulted only where step reads it: get_key() in the arms of
\* EX9E, EXA1 and FX0A, the random generator in the arm of CXNN; a timer period
\* that elapses while both timers are 0 changes nothing.
TickInputsNow == IF timer = 0 /\ sound = 0 THEN {FALSE} ELSE BOOLEAN
KeyInputsNow ==
    IF fetched.ok /\ fetched.op.op \in {"_EX9E", "_EXA1", "_FX0A"} THEN KeyInputs ELSE {NoKey}
RandInputsNow ==
    IF fetched.ok /\ fetched.op.op = "_CXNN" THEN RandInputs ELSE {0}

\* One call of cpu.step() by the host.  A panic ends the process.
Step ==
    /\ phase \in {"new", "loaded"}
    /\ result # PanicResult
    /\ \E tick \in TickInputsNow, key \in KeyInputsNow, val \in RandInputsNow :
          \E o \in {step(Machine, overflow_checks, tick, key, val)} :
              /\ SetMachine(o.m)
              /\ result' = o.res
              /\ last_op' = o.op
              /\ env' = [tick |-> tick, key |-> key, val |-> val]
              /\ frames' = frames_after(frames, Machine, o)
              /\ run' = run_after(run, o)
    /\ UNCHANGED <<overflow_checks, phase, codecVars, asmVars, hostVars>>

\* cpu.reset()
Reset ==
    /\ phase = "loaded"
    /\ result # PanicResult
    /\ \E m \in {reset(Machine)} : SetMachine(m)
    /\ phase' = "new"
    /\ result' = NoStep
    /\ last_op' = NoOp
    /\ env' = NoEnv
    /\ frames' = <<>>
    /\ run' = NoRun
    /\ UNCHANGED <<overflow_checks, codecVars, asmVars, hostVars>>

Next == LoadProgram(Programs) \/ Step \/ Reset

Spec == Init /\ [][Next]_vars

\* The arithmetic programs on a constructed CPU.
NextAlu == LoadProgram(AluPrograms) \/ Step

SpecAlu == Init /\ [][NextAlu]_vars

(***************************************************************************)
(* The recursing programs, picked up part-way.  A host that has called     *)
(* step() n times on a loaded program, with no timer period elapsed, holds *)
(* the machine that n applications of step produce.                        *)
(***************************************************************************)
Loaded(p) ==
    [m |-> load_program(new, u16_to_u8(p)), res |-> NoStep, op |-> NoOp,
     frames |-> <<>>, run |-> NoRun]

advance(h, oc) ==
    LET o == step(h.m, oc, FALSE, NoKey, 0)
    IN  [m |-> o.m, res |-> o.res, op |-> o.op,
         frames |-> frames_after(h.frames, h.m, o),
         run |-> run_after(h.run, o)]

RECURSIVE advance_by(_, _, _)
advance_by(h, oc, n) ==
    IF n = 0 \/ h.res = PanicResult THEN h
    ELSE IF n = 1 THEN advance(h, oc)
    ELSE advance_by(advance_by(h, oc, n \div 2), oc, n - n \div 2)

\* The number of steps already taken at the late starting point: the five
\* instructions that plant the call, then calls down to SP = 0x00F.
DeepStart == 2045
StackStarts == {0, DeepStart}

InitStack ==
    /\ CodecIdle
    /\ AsmIdle
    /\ HostIdle
    /\ overflow_checks \in BOOLEAN
    /\ phase = "loaded"
    /\ \E n \in StackStarts :
          \E h \in {advance_by(Loaded(DeepRecursion), overflow_checks, n)} :
              /\ memory = h.m.memory
              /\ v = h.m.v
              /\ i = h.m.i
              /\ timer = h.m.timer
              /\ sound = h.m.sound
              /\ pc = h.m.pc
              /\ stack_ptr = h.m.stack_ptr
              /\ buffer = h.m.buffer
              /\ pending_draw = h.m.pending_draw
              /\ result = h.res
              /\ last_op = h.op
              /\ env = NoEnv
              /\ frames = h.frames
              /\ run = h.run

NextStack == LoadProgram(StackPrograms) \/ Step \/ Reset

SpecStack == InitStack /\ [][NextStack]_vars

(***************************************************************************)
(* The shift and the logic instructions, on the arithmetic programs' form. *)
(***************************************************************************)
ShiftPrograms ==
    {AluProgram(k, x, y, a, b) :
        k \in {6, 14}, x \in RegInputs, y \in RegInputs, a \in ByteInputs, b \in ByteInputs}

LogicPrograms ==
    {AluProgram(k, x, y, a, b) :
        k \in {1, 2, 3}, x \in RegInputs, y \in RegInputs, a \in ByteInputs, b \in ByteInputs}

SpecShift == Init /\ [][LoadProgram(ShiftPrograms) \/ Step]_vars

SpecLogic == Init /\ [][LoadProgram(LogicPrograms) \/ Step]_vars

(***************************************************************************)
(* The conditional skips: LOAD Vx, a; LOAD Vy, b; the skip (3XNN and 4XNN  *)
(* compare V[x] with b); then a jump-to-self at each of the two addresses  *)
(* the skip can leave PC at.                                               *)
(***************************************************************************)
SkipProgram(k, x, y, a, b) ==
    <<24576 + x * 256 + a, 24576 + y * 256 + b,
      k * 4096 + x * 256 + (IF k \in {3, 4} THEN b ELSE y * 16),
      4096 + 518, 4096 + 520>>

SkipPrograms ==
    {SkipProgram(k, x, y, a, b) :
        k \in {3, 4, 5, 9}, x \in RegInputs, y \in RegInputs, a \in ByteInputs, b \in ByteInputs}

SpecSkip == Init /\ [][LoadProgram(SkipPrograms) \/ Step]_vars

(***************************************************************************)
(* Waiting for a key while the timers run: LOAD V1, t; timer := V1;        *)
(* sound := V1; FX0A; a jump-to-self.                                      *)
(***************************************************************************)
MaxTimer == 2

KeyWaitProgram(x, t) == <<24832 + t, 61717, 61720, 61450 + x * 256, 4096 + 520>>

KeyWaitPrograms == {KeyWaitProgram(x, t) : x \in RegInputs, t \in 0..MaxTimer}

SpecKey == Init /\ [][LoadProgram(KeyWaitPrograms) \/ Step]_vars

\* The same, with a keyboard that does not stay silent forever while the program
\* waits at an FX0A and the host goes on calling step(): weak fairness of
\* KeyedStep, its enabling condition written as the state predicate it is.
KeyedStep == Step /\ env'.key # NoKey
KeyAwaited == phase = "loaded" /\ fetched.ok /\ fetched.op.op = "_FX0A"
SpecKeyLive ==
    /\ Init
    /\ [][LoadProgram(KeyWaitPrograms) \/ Step]_vars
    /\ ([]<>~KeyAwaited \/ []<><<KeyedStep>>_vars)

(***************************************************************************)
(* Drawing a sprite twice at one place: LOADI ia; LOAD V0, px; LOAD V1, py;*)
(* DRAW V0, V1, n; DRAW V0, V1, n; a jump-to-self; then four bytes of      *)
(* sprite data (at 0x20C).  ia points at those, at the font's glyph 0, or  *)
(* at the blank start of memory; the places are the screen's corners, its  *)
(* last columns and rows, and coordinates past 63 and 31.                  *)
(***************************************************************************)
MaxRows == 2

DrawProgram(px, py, n, ia) ==
    <<40960 + ia, 24576 + px, 24832 + py, 53264 + n, 53264 + n, 4096 + 522, 65409, 195>>

SpriteAddrs == {524, FONT_START_ADDR, 0}
DrawXs == {0, 60, 63, 68}
DrawYs == {0, 30, 31, 33}

DrawPrograms ==
    {DrawProgram(px, py, n, ia) :
        px \in DrawXs, py \in DrawYs, n \in 0..MaxRows, ia \in SpriteAddrs}

SpecDraw == Init /\ [][LoadProgram(DrawPrograms) \/ Step]_vars

(***************************************************************************)
(* Storing and reloading registers: LOAD V0, a; LOAD V1, b; LOADI ia;      *)
(* STOR Vx; LOAD V0, 0x5A; LOAD V1, 0xA5; LOADI ia; READ Vx; jump-to-self. *)
(* ia is in free memory, 16 bytes below the top of memory, or the last     *)
(* byte of memory.                                                         *)
(***************************************************************************)
StoreProgram(x, ia, a, b) ==
    <<24576 + a, 24832 + b, 40960 + ia, 61525 + x * 256,
      24576 + 90, 24832 + 165, 40960 + ia, 61541 + x * 256, 4096 + 528>>

StoreAddrs == {768, MEMORY_SIZE - 16, MEMORY_SIZE - 1}

StorePrograms ==
    {StoreProgram(x, ia, a, b) :
        x \in RegInputs, ia \in StoreAddrs, a \in ByteInputs, b \in ByteInputs}

SpecStore == Init /\ [][LoadProgram(StorePrograms) \/ Step]_vars

(***************************************************************************)
(* Binary-coded decimal: LOAD Vx, val; LOADI ia; BCD Vx; jump-to-self.     *)
(* Every byte value goes through V0 at 0x300; the edge values also go      *)
(* through V1 and VF, with I three and two bytes below the top of memory.  *)
(***************************************************************************)
BcdProgram(x, ia, val) ==
    <<24576 + x * 256 + val, 40960 + ia, 61491 + x * 256, 4096 + 518>>

BcdPrograms ==
    {BcdProgram(0, 768, val) : val \in 0..255}
    \cup {BcdProgram(x, ia, val) :
            x \in RegInputs, ia \in {768, MEMORY_SIZE - 3, MEMORY_SIZE - 2},
            val \in ByteInputs}

SpecBcd == Init /\ [][LoadProgram(BcdPrograms) \/ Step]_vars

(***************************************************************************)
(* The codec on its own (as the translate binary uses it): no CPU exists.  *)
(***************************************************************************)
NoMachine ==
    /\ memory = <<>>
    /\ v = <<>>
    /\ i = 0
    /\ timer = 0
    /\ sound = 0
    /\ pc = 0
    /\ stack_ptr = 0
    /\ buffer = <<>>
    /\ pending_draw = FALSE
    /\ overflow_checks = FALSE
    /\ result = NoStep
    /\ phase = "none"
    /\ last_op = NoOp
    /\ env = NoEnv
    /\ frames = <<>>
    /\ run = NoRun

InitCodec == CodecIdle /\ AsmIdle /\ HostIdle /\ NoMachine

\* <(u8, u8)>::from(op_code) for one opcode value.
Encode(op_code) ==
    /\ c_op' = op_code
    /\ c_bytes' = from(op_code)
    /\ c_phase' = "encoded"
    /\ UNCHANGED <<c_res, c_back, machineVars, asmVars, hostVars>>

\* Every value of the 35 variants whose fields are in range is encoded.
EncodeOp ==
    /\ c_phase = "idle"
    /\ \/ \E k \in {"_00E0", "_00EE"} : Encode([op |-> k])
       \/ \E k \in NNNVariants, a \in Addr12 : Encode([op |-> k, nnn |-> a])
       \/ \E k \in XNNVariants, x \in Nibble, b \in Byte :
             Encode([op |-> k, x |-> x, nn |-> b])
       \/ \E k \in XYVariants, x \in Nibble, y \in Nibble :
             Encode([op |-> k, x |-> x, y |-> y])
       \/ \E x \in Nibble, y \in Nibble, n \in Nibble :
             Encode([op |-> "_DXYN", x |-> x, y |-> y, n |-> n])
       \/ \E k \in XVariants, x \in Nibble : Encode([op |-> k, x |-> x])

\* OpCode::try_from of the pair just encoded.
DecodeBytes ==
    /\ c_phase = "encoded"
    /\ c_res' = try_from(c_bytes[1], c_bytes[2])
    /\ c_phase' = "op_roundtrip"
    /\ UNCHANGED <<c_op, c_bytes, c_back, machineVars, asmVars, hostVars>>

\* OpCode::try_from of the two bytes of any 16-bit word.
DecodeWord ==
    /\ c_phase = "idle"
    /\ \E op1 \in Byte, op2 \in Byte :
          /\ c_bytes' = <<op1, op2>>
          /\ c_res' = try_from(op1, op2)
    /\ c_phase' = "decoded"
    /\ UNCHANGED <<c_op, c_back, machineVars, asmVars, hostVars>>

\* <(u8, u8)>::from of the opcode just decoded.
EncodeResult ==
    /\ c_phase = "decoded"
    /\ c_res.ok
    /\ c_back' = from(c_res.op)
    /\ c_phase' = "word_roundtrip"
    /\ UNCHANGED <<c_op, c_bytes, c_res, machineVars, asmVars, hostVars>>

NextCodec == EncodeOp \/ DecodeBytes \/ DecodeWord \/ EncodeResult

SpecCodec == InitCodec /\ [][NextCodec]_vars

(***************************************************************************)
(* The assembler's lexer (assembler/src/lexer.rs).  A text is a sequence   *)
(* of characters, each a one-character string; a token is a kind and the   *)
(* text it carries (one character for Whitespace and Unknown).             *)
(***************************************************************************)
LowerCase == <<"a", "b", "c", "d", "e", "f", "g", "h", "i", "j", "k", "l", "m", "n",
      "o", "p", "q", "r", "s", "t", "u", "v", "w", "x", "y", "z">>
UpperCase == <<"A", "B", "C", "D", "E", "F", "G", "H", "I", "J", "K", "L", "M", "N",
      "O", "P", "Q", "R", "S", "T", "U", "V", "W", "X", "Y", "Z">>
Letters == {LowerCase[k] : k \in 1..26} \cup {UpperCase[k] : k \in 1..26}
Digits == {"0", "1", "2", "3", "4", "5", "6", "7", "8", "9"}
HexLetters == {"a", "b", "c", "d", "e", "f", "A", "B", "C", "D", "E", "F"}

Token(kind, text) == [kind |-> kind, text |-> text]
NoToken == [kind |-> "None"]
NoChar == ""

\* str::to_ascii_uppercase, character by character.
to_ascii_uppercase(text) ==
    [k \in DOMAIN text |->
        IF \E j \in 1..26 : LowerCase[j] = text[k]
        THEN UpperCase[CHOOSE j \in 1..26 : LowerCase[j] = text[k]]
        ELSE text[k]]

\* str::starts_with
starts_with(text, prefix) ==
    Len(prefix) <= Len(text) /\ SubSeq(text, 1, Len(prefix)) = prefix

\* constants::mneumonics is not among the sources: the table is the mnemonic
\* set of the specification, longest first as it describes, and the length of
\* its longest entries.
MAX_OPCODE_LEN == 5
SORTED_MNEUMONICS ==
    <<<<"S", "K", "R", "N", "E">>, <<"L", "O", "A", "D", "I">>,
    <<"J", "U", "M", "P", "I">>, <<"M", "O", "V", "E", "D">>,
    <<"L", "O", "A", "D", "D">>, <<"L", "O", "A", "D", "S">>,
    <<"L", "D", "S", "P", "R">>, <<"J", "U", "M", "P">>,
    <<"C", "A", "L", "L">>, <<"S", "K", "N", "E">>,
    <<"S", "K", "R", "E">>, <<"L", "O", "A", "D">>,
    <<"M", "O", "V", "E">>, <<"A", "D", "D", "R">>,
    <<"R", "A", "N", "D">>, <<"D", "R", "A", "W">>,
    <<"S", "K", "P", "R">>, <<"S", "K", "U", "P">>,
    <<"K", "E", "Y", "D">>, <<"A", "D", "D", "I">>,
    <<"S", "T", "O", "R">>, <<"R", "E", "A", "D">>, <<"S", "Y", "S">>,
    <<"C", "L", "R">>, <<"R", "T", "S">>, <<"S", "K", "E">>,
    <<"A", "D", "D">>, <<"A", "N", "D">>, <<"X", "O", "R">>,
    <<"S", "U", "B">>, <<"S", "H", "R">>, <<"S", "H", "L">>,
    <<"B", "C", "D">>, <<"O", "R">>>>

\* Lexer::next_char: the pushback buf first, then the source.
next_char(lx) ==
    IF lx.pending_lex = <<>>
    THEN IF lx.tokens = <<>> THEN [c |-> NoChar, lx |-> lx]
         ELSE [c |-> Head(lx.tokens), lx |-> [lx EXCEPT !.tokens = Tail(@)]]
    ELSE [c |-> Head(lx.pending_lex), lx |-> [lx EXCEPT !.pending_lex = Tail(@)]]

\* The characters each read loop keeps.
accepts(kind, c) ==
    CASE kind = "number" -> c \in Digits \cup HexLetters \cup {"x", "X"}
      [] kind = "opcode" -> c \in Letters
      [] kind = "label" -> c \in Letters \cup Digits \cup {"_"}
      [] kind = "comment" -> c # "\n"

\* The read loops of lex_number, lex_opcode, lex_label and lex_comment: push
\* the characters the loop keeps, push the first other one back; room is the
\* number of rounds left (negative: no limit).
RECURSIVE read_loop(_, _, _, _)
read_loop(lx, buf, kind, room) ==
    IF room = 0 THEN [lx |-> lx, buf |-> buf]
    ELSE LET n == next_char(lx)
         IN  IF n.c = NoChar THEN [lx |-> lx, buf |-> buf]
             ELSE IF accepts(kind, n.c)
             THEN read_loop(n.lx, Append(buf, n.c), kind, room - 1)
             ELSE [lx |-> [n.lx EXCEPT !.pending_lex = <<n.c>> \o @],
                   buf |-> buf]

lex_number(lx, c) ==
    LET r == read_loop(lx, <<c>>, "number", -1)
    IN  [lx |-> r.lx, token |-> Token("Number", r.buf)]

\* A plausible slip in lex_opcode: comparing the buffer as typed, without
\* to_ascii_uppercase.
lex_opcode_case_sensitive(lx, c) ==
    LET r == read_loop(lx, <<c>>, "opcode", MAX_OPCODE_LEN - 1)
        buf == r.buf
        found == {k \in DOMAIN SORTED_MNEUMONICS :
                     starts_with(buf, SORTED_MNEUMONICS[k])}
    IN  IF found # {}
        THEN LET mneumonic ==
                     SORTED_MNEUMONICS[CHOOSE k \in found : \A j \in found : k <= j]
                 leftover_chars == Len(buf) - Len(mneumonic)
             IN  [lx |-> [r.lx EXCEPT !.pending_lex =
                             [k \in 1..leftover_chars |->
                                 buf[leftover_chars + 1 - k]] \o @],
                  token |-> Token("Mneumonic", mneumonic)]
        ELSE [lx |-> [r.lx EXCEPT !.pending_lex =
                         SubSeq(buf, 2, Len(buf)) \o @],
              token |-> NoToken]

\* A plausible slip in lex_opcode: the loop without a match starting at 0, so
\* that the first character, which the caller still holds, is pushed back too.
lex_opcode_pushes_first_back(lx, c) ==
    LET r == read_loop(lx, <<c>>, "opcode", MAX_OPCODE_LEN - 1)
        buf == r.buf
        upper_case_buf == to_ascii_uppercase(buf)
        found == {k \in DOMAIN SORTED_MNEUMONICS :
                     starts_with(upper_case_buf, SORTED_MNEUMONICS[k])}
    IN  IF found # {}
        THEN LET mneumonic ==
                     SORTED_MNEUMONICS[CHOOSE k \in found : \A j \in found : k <= j]
                 leftover_chars == Len(buf) - Len(mneumonic)
             IN  [lx |-> [r.lx EXCEPT !.pending_lex =
                             [k \in 1..leftover_chars |->
                                 buf[leftover_chars + 1 - k]] \o @],
                  token |-> Token("Mneumonic", mneumonic)]
        ELSE [lx |-> [r.lx EXCEPT !.pending_lex = buf \o @],
              token |-> NoToken]

\* Lexer::lex_opcode.  On a match the loop at 86-88 pushes buffer[0], buffer[1],
\* ... to the front one after the other, so the pushback holds the first
\* leftover_chars characters of the buffer, last pushed first; without a match
\* the loop at 93-96 pushes buffer[1..] back in order.
lex_opcode(lx, c) ==
    LET r == read_loop(lx, <<c>>, "opcode", MAX_OPCODE_LEN - 1)
        buf == r.buf
        upper_case_buf == to_ascii_uppercase(buf)
        found == {k \in DOMAIN SORTED_MNEUMONICS :
                     starts_with(upper_case_buf, SORTED_MNEUMONICS[k])}
    IN  IF found # {}
        THEN LET mneumonic ==
                     SORTED_MNEUMONICS[CHOOSE k \in found : \A j \in found : k <= j]
                 leftover_chars == Len(buf) - Len(mneumonic)
             IN  [lx |-> [r.lx EXCEPT !.pending_lex =
                             [k \in 1..leftover_chars |->
                                 buf[leftover_chars + 1 - k]] \o @],
                  token |-> Token("Mneumonic", mneumonic)]
        ELSE [lx |-> [r.lx EXCEPT !.pending_lex =
                         SubSeq(buf, 2, Len(buf)) \o @],
              token |-> NoToken]

lex_label(lx, c) ==
    LET r == read_loop(lx, <<c>>, "label", -1)
    IN  [lx |-> r.lx, token |-> Token("Label", r.buf)]

lex_comment(lx, c) ==
    LET r == read_loop(lx, <<c>>, "comment", -1)
    IN  [lx |-> r.lx, token |-> Token("Comment", r.buf)]

lex_char(lx, c) ==
    IF c \in {" ", "\t", "\r", "\n"} THEN [lx |-> lx, token |-> Token("Whitespace", <<c>>)]
    ELSE IF c \in Letters
    THEN LET o == lex_opcode(lx, c)
         IN  IF o.token # NoToken THEN o
             ELSE IF c \in HexLetters THEN lex_number(o.lx, c)
             ELSE [lx |-> o.lx, token |-> Token("Unknown", <<c>>)]
    ELSE IF c \in Digits THEN lex_number(lx, c)
    ELSE IF c = ":" THEN lex_label(lx, c)
    ELSE IF c = ";" THEN lex_comment(lx, c)
    ELSE [lx |-> lx, token |-> Token("Unknown", <<c>>)]

\* <Lexer as Iterator>::next
lexer_next(lx) ==
    LET n == next_char(lx)
    IN  IF n.c = NoChar THEN [lx |-> lx, token |-> NoToken]
        ELSE lex_char(n.lx, n.c)

\* The texts lexed: up to MaxPieces pieces in a row, among them mnemonics in
\* either case, a mnemonic running on into letters, letter runs that are no
\* mnemonic, a number, a label, a comment, blanks and a line end.
MaxPieces == 2
TextPieces ==
    {<<"L", "O", "A", "D", "S">>, <<"L", "O", "A", "D">>,
     <<"l", "o", "a", "d", "i">>, <<"S", "k", "R", "e">>,
     <<"F", "A", "K", "E">>, <<"K">>, <<"e">>, <<"O", "R">>,
     <<"A", "D", "D", "R">>, <<"C", "L", "R", "S">>, <<" ">>, <<"\n">>,
     <<"0", "x", "1", "F">>, <<":", "a">>, <<";", "c">>, <<",">>}

RECURSIVE Texts(_)
Texts(n) ==
    IF n = 0 THEN {<<>>}
    ELSE Texts(n - 1) \cup {t \o p : t \in Texts(n - 1), p \in TextPieces}

\* Lexer::from_iter on one of the texts.
InitLexer ==
    /\ CodecIdle
    /\ NoMachine
    /\ HostIdle
    /\ tokens \in Texts(MaxPieces)
    /\ pending_lex = <<>>
    /\ lexed = <<>>
    /\ a_phase = "lexing"
    /\ a_input = tokens
    /\ a_out = NoResult
    /\ p_tokens = <<>> /\ parsed = <<>>
    /\ iterated = FALSE /\ source = <<>> /\ labels = <<>> /\ mem_pins = <<>>
    /\ r_data = <<>>

\* One call of next() by the consumer of the token stream.
LexNext ==
    /\ a_phase = "lexing"
    /\ \E r \in {lexer_next([tokens |-> tokens, pending_lex |-> pending_lex])} :
          /\ tokens' = r.lx.tokens
          /\ pending_lex' = r.lx.pending_lex
          /\ a_out' = r.token
          /\ lexed' = IF r.token = NoToken THEN lexed ELSE Append(lexed, r.token)
          /\ a_phase' = IF r.token = NoToken THEN "lexed" ELSE a_phase
    /\ UNCHANGED <<a_input, parserVars, resolverVars, codecVars, machineVars, hostVars>>

SpecLexer == InitLexer /\ [][LexNext]_vars

\* The consumer of the stream asks for the next token until it gets None (in
\* main the parser and the resolver drain the lexer): a call that can be made
\* is made.
\* LexNext can be taken exactly while the stream has not returned None, so
\* this is weak fairness of LexNext.
SpecLexerLive ==
    /\ InitLexer
    /\ [][LexNext]_vars
    /\ ([]<>(a_phase # "lexing") \/ []<><<LexNext>>_vars)

(***************************************************************************)
(* The assembler's parser (assembler/src/parser.rs), over a token stream.  *)
(* Option<String>::None is the empty text: a label holds at least its      *)
(* colon and a comment at least its semicolon.                             *)
(***************************************************************************)
None == <<>>
NoParse == [kind |-> "None"]

Statement(label, opcode, operands, comment) ==
    [kind |-> "Statement", label |-> label, opcode |-> opcode,
     operands |-> operands, comment |-> comment]

\* Parser::consume_whitespace: end says whether the line (or the input) ended.
RECURSIVE consume_whitespace(_)
consume_whitespace(ts) ==
    IF ts = <<>> THEN [ts |-> ts, end |-> TRUE]
    ELSE IF Head(ts).kind # "Whitespace" THEN [ts |-> ts, end |-> FALSE]
    ELSE IF Head(ts).text = <<"\n">> THEN [ts |-> Tail(ts), end |-> TRUE]
    ELSE consume_whitespace(Tail(ts))

RECURSIVE parse_operands(_, _)
parse_operands(ts, operands) ==
    IF ts = <<>> THEN [ts |-> ts, operands |-> operands]
    ELSE IF Head(ts).kind \in {"Number", "Label"}
    THEN parse_operands(Tail(ts), Append(operands, Head(ts)))
    ELSE IF Head(ts).kind = "Whitespace" /\ Head(ts).text # <<"\n">>
    THEN parse_operands(Tail(ts), operands)
    ELSE [ts |-> ts, operands |-> operands]

\* A plausible slip in parse_statement: the leading label is consumed but not
\* kept in the Statement.
parse_statement_drops_label(ts) ==
    LET has_label == ts # <<>> /\ Head(ts).kind = "Label"
        label == IF has_label THEN Head(ts).text ELSE None
        t1 == IF has_label THEN Tail(ts) ELSE ts
        w1 == consume_whitespace(t1)
    IN  IF w1.end /\ label = None THEN [ts |-> w1.ts, result |-> NoParse]
        ELSE IF w1.end THEN [ts |-> w1.ts, result |-> [kind |-> "Label", text |-> label]]
        ELSE
            LET token == Head(w1.ts)
                t2 == Tail(w1.ts)
            IN  IF token.kind # "Mneumonic"
                THEN [ts |-> t2,
                      result |-> [kind |-> "Unknown",
                                  tokens |-> IF label = None THEN <<token>>
                                             ELSE <<Token("Label", label), token>>]]
                ELSE
                    LET w2 == consume_whitespace(t2)
                        o == parse_operands(w2.ts, <<>>)
                        w3 == consume_whitespace(o.ts)
                    IN  IF w2.end
                        THEN [ts |-> w2.ts,
                              result |-> Statement(None, token.text, <<>>, None)]
                        ELSE IF w3.end
                        THEN [ts |-> w3.ts,
                              result |-> Statement(None, token.text, o.operands, None)]
                        ELSE IF Head(w3.ts).kind # "Comment"
                        THEN [ts |-> w3.ts,
                              result |-> [kind |-> "Unknown",
                                          tokens |-> (IF label = None THEN <<token>>
                                                      ELSE <<Token("Label", label), token>>)
                                                     \o o.operands]]
                        ELSE [ts |-> Tail(w3.ts),
                              result |-> Statement(None, token.text, o.operands,
                                                   Head(w3.ts).text)]

\* Parser::parse_statement
parse_statement(ts) ==
    LET has_label == ts # <<>> /\ Head(ts).kind = "Label"
        label == IF has_label THEN Head(ts).text ELSE None
        t1 == IF has_label THEN Tail(ts) ELSE ts
        w1 == consume_whitespace(t1)
    IN  IF w1.end /\ label = None THEN [ts |-> w1.ts, result |-> NoParse]
        ELSE IF w1.end THEN [ts |-> w1.ts, result |-> [kind |-> "Label", text |-> label]]
        ELSE
            LET token == Head(w1.ts)
                t2 == Tail(w1.ts)
            IN  IF token.kind # "Mneumonic"
                THEN [ts |-> t2,
                      result |-> [kind |-> "Unknown",
                                  tokens |-> IF label = None THEN <<token>>
                                             ELSE <<Token("Label", label), token>>]]
                ELSE
                    LET w2 == consume_whitespace(t2)
                        o == parse_operands(w2.ts, <<>>)
                        w3 == consume_whitespace(o.ts)
                    IN  IF w2.end
                        THEN [ts |-> w2.ts,
                              result |-> Statement(label, token.text, <<>>, None)]
                        ELSE IF w3.end
                        THEN [ts |-> w3.ts,
                              result |-> Statement(label, token.text, o.operands, None)]
                        ELSE IF Head(w3.ts).kind # "Comment"
                        THEN [ts |-> w3.ts,
                              result |-> [kind |-> "Unknown",
                                          tokens |-> (IF label = None THEN <<token>>
                                                      ELSE <<Token("Label", label), token>>)
                                                     \o o.operands]]
                        ELSE [ts |-> Tail(w3.ts),
                              result |-> Statement(label, token.text, o.operands,
                                                   Head(w3.ts).text)]

\* <Parser as Iterator>::next
RECURSIVE parser_next(_)
parser_next(ts) ==
    IF ts = <<>> THEN [ts |-> ts, result |-> NoParse]
    ELSE LET kind == Head(ts).kind
         IN  IF kind = "Comment"
             THEN [ts |-> consume_whitespace(Tail(ts)).ts,
                   result |-> [kind |-> "Comment", text |-> Head(ts).text]]
             ELSE IF kind = "Whitespace" THEN parser_next(consume_whitespace(ts).ts)
             ELSE IF kind \in {"Label", "Mneumonic"} THEN parse_statement(ts)
             ELSE [ts |-> Tail(ts),
                   result |-> [kind |-> "Unknown", tokens |-> <<Head(ts)>>]]

\* The lines parsed.  A line is what the parser should make of it: a Statement
\* (with or without label, operands, comment), a Label or a Comment; its tokens
\* are those parts in order with one blank between them and a line end after
\* them, or, padded, with a tab before, two blanks between, and a blank and a
\* carriage return before the line end.
MaxOperands == 2
Blank == Token("Whitespace", <<" ">>)
LineEnd == Token("Whitespace", <<"\n">>)

RECURSIVE OperandLists(_)
OperandLists(n) ==
    IF n = 0 THEN {<<>>}
    ELSE OperandLists(n - 1)
         \cup {Append(l, o) : l \in OperandLists(n - 1),
                              o \in {Token("Number", <<"0", "x", "1">>),
                                     Token("Label", <<":", "b">>)}}

Lines ==
    {Statement(l, <<"S", "K", "E">>, os, c) :
        l \in {None, <<":", "a">>}, os \in OperandLists(MaxOperands),
        c \in {None, <<";", "c">>}}
    \cup {[kind |-> "Label", text |-> <<":", "a">>],
          [kind |-> "Comment", text |-> <<";", "c">>]}

RECURSIVE Spaced(_, _)
Spaced(ts, gap) ==
    IF Len(ts) <= 1 THEN ts ELSE <<Head(ts)>> \o gap \o Spaced(Tail(ts), gap)

LineTokens(line, padded) ==
    LET parts ==
            IF line.kind = "Statement"
            THEN (IF line.label = None THEN <<>> ELSE <<Token("Label", line.label)>>)
                 \o <<Token("Mneumonic", line.opcode)>> \o line.operands
                 \o (IF line.comment = None THEN <<>>
                     ELSE <<Token("Comment", line.comment)>>)
            ELSE <<Token(line.kind, line.text)>>
    IN  IF padded
        THEN <<Token("Whitespace", <<"\t">>)>> \o Spaced(parts, <<Blank, Blank>>)
             \o <<Blank, Token("Whitespace", <<"\r">>)>>
        ELSE Spaced(parts, <<Blank>>)

\* One line or two, in either layout, the last one with or without its line end.
ParserInputs ==
    {[lines |-> ls, padded |-> p, closed |-> e] :
        ls \in {<<l>> : l \in Lines} \cup (Lines \X Lines),
        p \in BOOLEAN, e \in BOOLEAN}

InputTokens(in) ==
    LET first == LineTokens(in.lines[1], in.padded)
        last == LineTokens(in.lines[Len(in.lines)], in.padded)
    IN  (IF Len(in.lines) = 2 THEN first \o <<LineEnd>> ELSE <<>>)
        \o last \o (IF in.closed THEN <<LineEnd>> ELSE <<>>)

\* Parser::from_iter on the tokens of one input.
InitParser ==
    /\ CodecIdle
    /\ NoMachine
    /\ HostIdle
    /\ a_input \in ParserInputs
    /\ p_tokens = InputTokens(a_input)
    /\ parsed = <<>>
    /\ a_phase = "parsing"
    /\ a_out = NoResult
    /\ tokens = <<>> /\ pending_lex = <<>> /\ lexed = <<>>
    /\ iterated = FALSE /\ source = <<>> /\ labels = <<>> /\ mem_pins = <<>>
    /\ r_data = <<>>

\* One call of next() by the consumer of the parse results.
ParseNext ==
    /\ a_phase = "parsing"
    /\ \E r \in {parser_next(p_tokens)} :
          /\ p_tokens' = r.ts
          /\ a_out' = r.result
          /\ parsed' = IF r.result = NoParse THEN parsed ELSE Append(parsed, r.result)
          /\ a_phase' = IF r.result = NoParse THEN "parsed" ELSE a_phase
    /\ UNCHANGED <<a_input, lexerVars, resolverVars, codecVars, machineVars, hostVars>>

SpecParser == InitParser /\ [][ParseNext]_vars

(***************************************************************************)
(* Statement -> OpCode (assembler/src/opcodes.rs).                         *)
(***************************************************************************)
NoValue == -1
HexDigits == <<"0", "1", "2", "3", "4", "5", "6", "7", "8", "9",
               "a", "b", "c", "d", "e", "f">>

\* uN::from_str_radix(text, 16) for an unsigned type with maximum max: an
\* optional '+', then at least one hex digit of either case; any other
\* character, no digit at all, or a value above max gives None.
RECURSIVE radix_digits(_, _, _)
radix_digits(text, acc, max) ==
    IF text = <<>> THEN acc
    ELSE LET c == to_ascii_uppercase(<<Head(text)>>)[1]
             ds == {d \in 0..15 : to_ascii_uppercase(<<HexDigits[d + 1]>>)[1] = c}
         IN  IF ds = {} THEN NoValue
             ELSE LET next == acc * 16 + (CHOOSE d \in ds : TRUE)
                  IN  IF next > max THEN NoValue
                      ELSE radix_digits(Tail(text), next, max)

from_str_radix(text, max) ==
    LET body == IF text # <<>> /\ Head(text) = "+" THEN Tail(text) ELSE text
    IN  IF body = <<>> THEN NoValue ELSE radix_digits(body, 0, max)

strip_hex_u8(instruction) ==
    IF starts_with(instruction, <<"0", "x">>)
    THEN from_str_radix(SubSeq(instruction, 3, Len(instruction)), 255)
    ELSE from_str_radix(instruction, 255)

strip_hex_u16(instruction) ==
    IF starts_with(instruction, <<"0", "x">>)
    THEN from_str_radix(SubSeq(instruction, 3, Len(instruction)), 65535)
    ELSE from_str_radix(instruction, 65535)

asm_nn(instruction) ==
    LET val == strip_hex_u8(instruction)
    IN  IF val = NoValue THEN NoValue ELSE BitAnd(val, 255)

asm_nnn(instruction) ==
    LET val == strip_hex_u16(instruction)
    IN  IF val = NoValue THEN NoValue ELSE BitAnd(val, 4095)

reg(instruction) ==
    LET val == strip_hex_u8(instruction)
    IN  IF val = NoValue THEN NoValue ELSE BitAnd(val, 15)

InvalidStatementError(statement, text) ==
    [ok |-> FALSE, err |-> "InvalidStatementError", statement |-> statement,
     text |-> text]

xnn(statement, register, value) ==
    LET x == reg(register)
        b == asm_nn(value)
    IN  IF x # NoValue /\ b # NoValue THEN [ok |-> TRUE, x |-> x, nn |-> b]
        ELSE IF x = NoValue /\ b = NoValue
        THEN InvalidStatementError(statement, "Invalid register and number")
        ELSE IF x = NoValue THEN InvalidStatementError(statement, "Invalid register")
        ELSE InvalidStatementError(statement, "Invalid number")

xy(statement, regx, regy) ==
    LET x == reg(regx)
        y == reg(regy)
    IN  IF x # NoValue /\ y # NoValue THEN [ok |-> TRUE, x |-> x, y |-> y]
        ELSE IF x = NoValue /\ y = NoValue
        THEN InvalidStatementError(statement, "Invalid register for x and y")
        ELSE IF x = NoValue
        THEN InvalidStatementError(statement, "Invalid register for x")
        ELSE InvalidStatementError(statement, "Invalid register for y")

xyn(statement, regx, regy, val) ==
    LET x == reg(regx)
        y == reg(regy)
        n == reg(val)
    IN  IF x # NoValue /\ y # NoValue /\ n # NoValue
        THEN [ok |-> TRUE, x |-> x, y |-> y, n |-> n]
        ELSE InvalidStatementError(statement, "Invalid value for x, y, and n")

\* The arms of the match in try_from: the mnemonic, the variant it builds, the
\* operands it takes and the text of its own error (the xnn and xy arms take
\* theirs from xnn and xy; {} stands for the operand CALL's text quotes).
StatementArms ==
    {[mneumonic |-> <<"S", "Y", "S">>, op |-> "_0NNN", shape |-> "nnn",
      text |-> "Invalid number"],
     [mneumonic |-> <<"C", "L", "R">>, op |-> "_00E0", shape |-> "none",
      text |-> ""],
     [mneumonic |-> <<"R", "T", "S">>, op |-> "_00EE", shape |-> "none",
      text |-> ""],
     [mneumonic |-> <<"J", "U", "M", "P">>, op |-> "_1NNN", shape |-> "nnn",
      text |-> "Invalid number"],
     [mneumonic |-> <<"C", "A", "L", "L">>, op |-> "_2NNN", shape |-> "nnn",
      text |-> "Invalid number: {}, expected a number between 0x000 and 0xFFF"],
     [mneumonic |-> <<"S", "K", "E">>, op |-> "_3XNN", shape |-> "xnn",
      text |-> ""],
     [mneumonic |-> <<"S", "K", "N", "E">>, op |-> "_4XNN", shape |-> "xnn",
      text |-> ""],
     [mneumonic |-> <<"S", "K", "R", "E">>, op |-> "_5XY0", shape |-> "xy",
      text |-> ""],
     [mneumonic |-> <<"L", "O", "A", "D">>, op |-> "_6XNN", shape |-> "xnn",
      text |-> ""],
     [mneumonic |-> <<"A", "D", "D">>, op |-> "_7XNN", shape |-> "xnn",
      text |-> ""],
     [mneumonic |-> <<"M", "O", "V", "E">>, op |-> "_8XY0", shape |-> "xy",
      text |-> ""],
     [mneumonic |-> <<"O", "R">>, op |-> "_8XY1", shape |-> "xy",
      text |-> ""],
     [mneumonic |-> <<"A", "N", "D">>, op |-> "_8XY2", shape |-> "xy",
      text |-> ""],
     [mneumonic |-> <<"X", "O", "R">>, op |-> "_8XY3", shape |-> "xy",
      text |-> ""],
     [mneumonic |-> <<"A", "D", "D", "R">>, op |-> "_8XY4", shape |-> "xy",
      text |-> ""],
     [mneumonic |-> <<"S", "U", "B">>, op |-> "_8XY5", shape |-> "xy",
      text |-> ""],
     [mneumonic |-> <<"S", "H", "R">>, op |-> "_8XY6", shape |-> "xy",
      text |-> ""],
     [mneumonic |-> <<"S", "H", "L">>, op |-> "_8XYE", shape |-> "xy",
      text |-> ""],
     [mneumonic |-> <<"S", "K", "R", "N", "E">>, op |-> "_9XY0", shape |-> "xy",
      text |-> ""],
     [mneumonic |-> <<"L", "O", "A", "D", "I">>, op |-> "_ANNN", shape |-> "nnn",
      text |-> "Invalid address"],
     [mneumonic |-> <<"J", "U", "M", "P", "I">>, op |-> "_BNNN", shape |-> "nnn",
      text |-> "Invalid address"],
     [mneumonic |-> <<"R", "A", "N", "D">>, op |-> "_CXNN", shape |-> "xnn",
      text |-> ""],
     [mneumonic |-> <<"D", "R", "A", "W">>, op |-> "_DXYN", shape |-> "xyn",
      text |-> "Invalid value for x, y, and n"],
     [mneumonic |-> <<"S", "K", "P", "R">>, op |-> "_EX9E", shape |-> "x",
      text |-> "Invalid key"],
     [mneumonic |-> <<"S", "K", "U", "P">>, op |-> "_EXA1", shape |-> "x",
      text |-> "Invalid key"],
     [mneumonic |-> <<"M", "O", "V", "E", "D">>, op |-> "_FX07", shape |-> "x",
      text |-> "Invalid key"],
     [mneumonic |-> <<"K", "E", "Y", "D">>, op |-> "_FX0A", shape |-> "x",
      text |-> "Invalid key"],
     [mneumonic |-> <<"L", "O", "A", "D", "D">>, op |-> "_FX15", shape |-> "x",
      text |-> "Invalid key"],
     [mneumonic |-> <<"L", "O", "A", "D", "S">>, op |-> "_FX18", shape |-> "x",
      text |-> "Invalid key"],
     [mneumonic |-> <<"A", "D", "D", "I">>, op |-> "_FX1E", shape |-> "x",
      text |-> "Invalid key"],
     [mneumonic |-> <<"L", "D", "S", "P", "R">>, op |-> "_FX29", shape |-> "x",
      text |-> "Invalid key"],
     [mneumonic |-> <<"B", "C", "D">>, op |-> "_FX33", shape |-> "x",
      text |-> "Invalid key"],
     [mneumonic |-> <<"S", "T", "O", "R">>, op |-> "_FX55", shape |-> "x",
      text |-> "Invalid key"],
     [mneumonic |-> <<"R", "E", "A", "D">>, op |-> "_FX65", shape |-> "x",
      text |-> "Invalid key"]}

\* <OpCode as TryFrom<Statement>>::try_from
try_from_statement(statement) ==
    LET ops == statement.operands
        arity == [nnn |-> 1, xnn |-> 2, xy |-> 2, xyn |-> 3, x |-> 1, none |-> 0]
        arms == {a \in StatementArms :
                    /\ a.mneumonic = statement.opcode
                    /\ Len(ops) = arity[a.shape]
                    /\ \A k \in DOMAIN ops : ops[k].kind = "Number"}
    IN  IF arms = {} THEN InvalidStatementError(statement, "Invalid opcode")
        ELSE
            LET a == CHOOSE arm \in arms : TRUE
            IN  CASE a.shape = "none" -> Ok([op |-> a.op])
                  [] a.shape = "nnn" ->
                        LET n == asm_nnn(ops[1].text)
                        IN  IF n = NoValue THEN InvalidStatementError(statement, a.text)
                            ELSE Ok([op |-> a.op, nnn |-> n])
                  [] a.shape = "x" ->
                        LET x == reg(ops[1].text)
                        IN  IF x = NoValue THEN InvalidStatementError(statement, a.text)
                            ELSE Ok([op |-> a.op, x |-> x])
                  [] a.shape = "xnn" ->
                        LET r == xnn(statement, ops[1].text, ops[2].text)
                        IN  IF r.ok THEN Ok([op |-> a.op, x |-> r.x, nn |-> r.nn]) ELSE r
                  [] a.shape = "xy" ->
                        LET r == xy(statement, ops[1].text, ops[2].text)
                        IN  IF r.ok THEN Ok([op |-> a.op, x |-> r.x, y |-> r.y]) ELSE r
                  [] a.shape = "xyn" ->
                        LET r == xyn(statement, ops[1].text, ops[2].text, ops[3].text)
                        IN  IF r.ok THEN Ok([op |-> a.op, x |-> r.x, y |-> r.y, n |-> r.n])
                            ELSE r

(***************************************************************************)
(* Operands and statements on their own: reg, nn and nnn applied to one    *)
(* operand text; one statement assembled and its two bytes decoded by the  *)
(* interpreter's decoder.                                                  *)
(***************************************************************************)
MaxDigits == 4

RECURSIVE DigitRuns(_)
DigitRuns(n) ==
    IF n = 0 THEN {<<>>}
    ELSE DigitRuns(n - 1)
         \cup {Append(t, d) : t \in DigitRuns(n - 1), d \in {"0", "1", "8", "F", "a"}}

\* An operand as written: hex digits, bare or after 0x.
OperandInputs ==
    {[digits |-> ds, text |-> p \o ds] :
        ds \in DigitRuns(MaxDigits) \ {<<>>}, p \in {<<>>, <<"0", "x">>}}

InitOperand ==
    /\ CodecIdle
    /\ NoMachine
    /\ HostIdle
    /\ a_input \in OperandInputs
    /\ a_phase = "operand"
    /\ a_out = NoResult
    /\ tokens = <<>> /\ pending_lex = <<>> /\ lexed = <<>>
    /\ p_tokens = <<>> /\ parsed = <<>>
    /\ iterated = FALSE /\ source = <<>> /\ labels = <<>> /\ mem_pins = <<>>
    /\ r_data = <<>>

\* reg, nn and nnn of the operand.
MaskOperand ==
    /\ a_phase = "operand"
    /\ a_out' = [reg |-> reg(a_input.text), nn |-> asm_nn(a_input.text),
                 nnn |-> asm_nnn(a_input.text)]
    /\ a_phase' = "masked"
    /\ UNCHANGED <<a_input, lexerVars, parserVars, resolverVars, codecVars, machineVars, hostVars>>

SpecOperand == InitOperand /\ [][MaskOperand]_vars

\* One statement per arm and per choice of operand texts out of 0x0, F, 0x2a
\* and 0x2a5.
StatementInputs ==
    {Statement(None, a.mneumonic, os, None) :
        a \in StatementArms,
        os \in UNION {[1..n -> {Token("Number", t) :
                                  t \in {<<"0", "x", "0">>, <<"F">>, <<"0", "x", "2", "a">>,
                                         <<"0", "x", "2", "a", "5">>}}] : n \in 0..3}}

InitAssemble ==
    /\ CodecIdle
    /\ NoMachine
    /\ HostIdle
    /\ a_input \in StatementInputs
    /\ a_phase = "statement"
    /\ a_out = NoResult
    /\ tokens = <<>> /\ pending_lex = <<>> /\ lexed = <<>>
    /\ p_tokens = <<>> /\ parsed = <<>>
    /\ iterated = FALSE /\ source = <<>> /\ labels = <<>> /\ mem_pins = <<>>
    /\ r_data = <<>>

\* OpCode::try_from(statement), <(u8, u8)>::from(opcode) as resolve() applies
\* them (resolver.rs 182-186), and the interpreter's decoding of the two bytes.
AssembleStatement ==
    /\ a_phase = "statement"
    /\ \E r \in {try_from_statement(a_input)} :
          a_out' = IF ~r.ok THEN [opcode |-> r]
                   ELSE LET bytes == from(r.op)
                        IN  [opcode |-> r, bytes |-> bytes,
                             decoded |-> try_from(bytes[1], bytes[2])]
    /\ a_phase' = "assembled"
    /\ UNCHANGED <<a_input, lexerVars, parserVars, resolverVars, codecVars, machineVars, hostVars>>

SpecAssemble == InitAssemble /\ [][AssembleStatement]_vars

(***************************************************************************)
(* The resolver (assembler/src/resolver.rs).  Its source yields parse      *)
(* results; a Declaration carries a label, an optional size token and an   *)
(* optional list of member tokens.                                         *)
(***************************************************************************)
NoMembers == <<NoToken>>
NoBytes == <<NoValue>>

Declaration(label, size, members) ==
    [kind |-> "Declaration", label |-> label, size |-> size, members |-> members]

UnknownLabelError(label) == [ok |-> FALSE, err |-> "UnknownLabelError", label |-> label]

\* A plausible slip in current_address: counting statements, not bytes.
current_address_unscaled(r_statements, oc) ==
    IF Len(r_statements) > 65535 \/ (oc /\ Overflows(Len(r_statements) + PGRM_LOAD_START_ADDR))
    THEN NoValue
    ELSE U16(Len(r_statements) + PGRM_LOAD_START_ADDR)

\* Resolver::current_address; NoValue where the conversion to u16 fails or the
\* sum overflows with overflow checks on (both panic).
current_address(r_statements, oc) ==
    IF Len(r_statements) * 2 > 65535
       \/ (oc /\ Overflows(Len(r_statements) * 2 + PGRM_LOAD_START_ADDR))
    THEN NoValue
    ELSE U16(Len(r_statements) * 2 + PGRM_LOAD_START_ADDR)

\* The closure at 89-94 and 111-116: a member that is no Number is 0, a Number
\* goes through strip_hex_u8(..).unwrap().
member_bytes(members) ==
    [k \in DOMAIN members |->
        IF members[k].kind # "Number" THEN 0 ELSE strip_hex_u8(members[k].text)]

\* One round of the loop of process_iterator on a Declaration: the resolver
\* after it, or a panic (an unwrap of None, the assert_eq at 104, the arm at 121).
process_declaration(r, d) ==
    LET sized == d.size # NoToken /\ d.size.kind = "Number"
        listed == d.members # NoMembers
        size == IF sized THEN strip_hex_u16(d.size.text) ELSE NoValue
        bytes == IF listed THEN member_bytes(d.members) ELSE <<>>
        pin(n, ms) == [label |-> d.label, size |-> n, members |-> ms]
    IN  IF sized /\ ~listed
        THEN IF size = NoValue THEN [panic |-> TRUE, r |-> r]
             ELSE [panic |-> FALSE,
                   r |-> [r EXCEPT !.mem_pins = Append(@, pin(size, NoBytes))]]
        ELSE IF listed /\ (sized \/ d.size = NoToken)
        THEN IF (sized /\ size # U16(Len(d.members)))
                \/ \E k \in DOMAIN bytes : bytes[k] = NoValue
             THEN [panic |-> TRUE, r |-> r]
             ELSE [panic |-> FALSE,
                   r |-> [r EXCEPT !.mem_pins = Append(@, pin(U16(Len(d.members)), bytes))]]
        ELSE [panic |-> TRUE, r |-> r]

\* Resolver::process_iterator: the loop over the source.  (The resolver is
\* bound once per round, r \in {r0}: it is a value, as in the code, not an
\* expression to be evaluated again at every use.)
RECURSIVE process_iterator(_, _)
process_iterator(r0, oc) ==
    CHOOSE out \in
        {IF r.source = <<>> THEN [panic |-> FALSE, r |-> r]
         ELSE
            LET item == Head(r.source)
                rest == [r EXCEPT !.source = Tail(@)]
                address == current_address(r.data, oc)
            IN  IF item.kind = "Label"
                THEN IF address = NoValue THEN [panic |-> TRUE, r |-> rest]
                     ELSE process_iterator(
                              [rest EXCEPT !.labels = Append(@, <<item.text, address>>)], oc)
                ELSE IF item.kind = "Statement"
                THEN IF item.label # None /\ address = NoValue
                     THEN [panic |-> TRUE, r |-> rest]
                     ELSE process_iterator(
                              [rest EXCEPT
                                  !.labels = IF item.label = None THEN @
                                             ELSE Append(@, <<item.label, address>>),
                                  !.data = Append(@, item)], oc)
                ELSE IF item.kind = "Declaration"
                THEN LET d == process_declaration(rest, item)
                     IN  IF d.panic THEN d ELSE process_iterator(d.r, oc)
                ELSE process_iterator(rest, oc) :
            r \in {r0}} : TRUE

\* format!("{:#x}", address)
RECURSIVE format_hex_digits(_)
format_hex_digits(n) ==
    IF n < 16 THEN <<HexDigits[n + 1]>>
    ELSE Append(format_hex_digits(n \div 16), HexDigits[(n % 16) + 1])

format_hex(address) == <<"0", "x">> \o format_hex_digits(address)

\* The fold at 138-146: each pin's address; NoBytes where a sum overflows with
\* overflow checks on.
RECURSIVE pin_addresses(_, _, _, _)
pin_addresses(pins, address, acc, oc) ==
    IF pins = <<>> THEN acc
    ELSE IF oc /\ Overflows(address + Head(pins).size) THEN NoBytes
    ELSE pin_addresses(Tail(pins), U16(address + Head(pins).size),
                       Append(acc, address), oc)

\* A plausible slip in the closure at 155-172: a label nobody defined resolves
\* to address 0.
resolve_operand_defaults(operand, r_labels, pins, addresses) ==
    IF operand.kind # "Label" THEN [ok |-> TRUE, token |-> operand]
    ELSE
        LET in_code == {k \in DOMAIN r_labels : r_labels[k][1] = operand.text}
            in_pins == {k \in DOMAIN pins : pins[k].label = operand.text}
            first(ks) == CHOOSE k \in ks : \A j \in ks : k <= j
        IN  IF in_code # {}
            THEN [ok |-> TRUE,
                  token |-> Token("Number", format_hex(r_labels[first(in_code)][2]))]
            ELSE IF in_pins # {}
            THEN [ok |-> TRUE,
                  token |-> Token("Number", format_hex(addresses[first(in_pins)]))]
            ELSE [ok |-> TRUE, token |-> Token("Number", format_hex(0))]

\* The closure at 155-172: a Label operand becomes the Number of its address,
\* looked up among the code labels first and the pins second.
resolve_operand(operand, r_labels, pins, addresses) ==
    IF operand.kind # "Label" THEN [ok |-> TRUE, token |-> operand]
    ELSE
        LET in_code == {k \in DOMAIN r_labels : r_labels[k][1] = operand.text}
            in_pins == {k \in DOMAIN pins : pins[k].label = operand.text}
            first(ks) == CHOOSE k \in ks : \A j \in ks : k <= j
        IN  IF in_code # {}
            THEN [ok |-> TRUE,
                  token |-> Token("Number", format_hex(r_labels[first(in_code)][2]))]
            ELSE IF in_pins # {}
            THEN [ok |-> TRUE,
                  token |-> Token("Number", format_hex(addresses[first(in_pins)]))]
            ELSE UnknownLabelError(operand.text)

\* The closure at 151-187 on one statement: its two bytes, or the first error.
resolve_statement(statement, r_labels, pins, addresses) ==
    CHOOSE out \in
        {IF \E k \in DOMAIN mapped : ~mapped[k].ok
         THEN mapped[CHOOSE k \in DOMAIN mapped :
                         ~mapped[k].ok /\ \A j \in 1..(k - 1) : mapped[j].ok]
         ELSE CHOOSE res \in
                  {IF ~opcode.ok THEN opcode ELSE [ok |-> TRUE, bytes |-> from(opcode.op)] :
                      opcode \in {try_from_statement(
                          [statement EXCEPT
                              !.operands = [k \in DOMAIN mapped |-> mapped[k].token]])}} : TRUE :
            mapped \in {[k \in DOMAIN statement.operands |->
                            resolve_operand(statement.operands[k], r_labels, pins,
                                            addresses)]}} : TRUE

\* The collect at 188: the bytes of all statements, or the first error.
RECURSIVE resolve_code(_, _, _, _, _)
resolve_code(statements, r_labels, pins, addresses, acc) ==
    IF statements = <<>> THEN [ok |-> TRUE, bytes |-> acc]
    ELSE CHOOSE out \in
             {IF ~o.ok THEN o
              ELSE resolve_code(Tail(statements), r_labels, pins, addresses,
                                acc \o o.bytes) :
                 o \in {resolve_statement(Head(statements), r_labels, pins, addresses)}} : TRUE

\* The flat_map at 193-202: each pin's buffer of size zeros with its members
\* written from the start; a pin without members panics at the unwrap.
RECURSIVE resolve_data(_, _)
resolve_data(pins, acc) ==
    IF pins = <<>> THEN [ok |-> TRUE, bytes |-> acc]
    ELSE LET p == Head(pins)
         IN  IF p.members = NoBytes \/ Len(p.members) > p.size THEN PanicResult
             ELSE resolve_data(Tail(pins),
                               acc \o [k \in 1..p.size |->
                                          IF k <= Len(p.members) THEN p.members[k] ELSE 0])

\* The two passes of resolve() over a resolver whose source has been read.
resolve_passes(r, oc) ==
    CHOOSE out \in
        {IF addresses = NoBytes THEN PanicResult
         ELSE CHOOSE res \in
                  {IF ~code_res.ok THEN code_res
                   ELSE IF ~data_res.ok THEN PanicResult
                   ELSE [ok |-> TRUE, bytes |-> code_res.bytes \o data_res.bytes] :
                      code_res \in {resolve_code(r.data, r.labels, r.mem_pins,
                                                 addresses, <<>>)},
                      data_res \in {resolve_data(r.mem_pins, <<>>)}} : TRUE :
            addresses \in {IF current_address(r.data, oc) = NoValue THEN NoBytes
                           ELSE pin_addresses(r.mem_pins, current_address(r.data, oc),
                                              <<>>, oc)}} : TRUE

\* Resolver::resolve: the resolver after the call and what the call returned.
resolve(r0, oc) ==
    CHOOSE out \in
        {[r |-> p.r, res |-> IF p.panic THEN PanicResult ELSE resolve_passes(p.r, oc)] :
            p \in {IF r0.iterated THEN [panic |-> FALSE, r |-> r0]
                   ELSE process_iterator([r0 EXCEPT !.iterated = TRUE], oc)}} : TRUE

\* The parse results a source is made of: up to MaxItems of these in any order.
\* Labels :start, :a (twice), :pin; jumps to them and to a label nobody
\* defines; a statement short of an operand; a comment and an unknown, which
\* the resolver skips; pins with members only, with a size only, and with a
\* size larger than the member list.
MaxItems == 3
ResolverItems ==
    LET Num(t) == Token("Number", t)
        Jump(l) == Statement(None, <<"J", "U", "M", "P">>, <<Token("Label", l)>>, None)
    IN  {[kind |-> "Label", text |-> <<":", "a">>],
         Statement(<<":", "s", "t", "a", "r", "t">>, <<"S", "K", "E">>,
                   <<Num(<<"0", "x", "0">>), Num(<<"0", "x", "5">>)>>, None),
         Statement(<<":", "a">>, <<"R", "T", "S">>, <<>>, None),
         Jump(<<":", "s", "t", "a", "r", "t">>),
         Jump(<<":", "a">>),
         Jump(<<":", "p", "i", "n">>),
         Jump(<<":", "n", "o", "p", "e">>),
         Statement(None, <<"L", "O", "A", "D">>, <<Num(<<"0", "x", "0">>)>>, None),
         [kind |-> "Comment", text |-> <<";", "c">>],
         [kind |-> "Unknown", tokens |-> <<Num(<<"7">>)>>],
         Declaration(<<":", "p", "i", "n">>, NoToken,
                     <<Num(<<"0", "x", "1">>), Num(<<"F", "F">>)>>),
         Declaration(<<":", "p", "i", "n">>, Num(<<"2">>), NoMembers),
         Declaration(<<":", "b", "u", "f">>, Num(<<"0", "x", "3">>), <<Num(<<"7">>)>>)}

RECURSIVE Sources(_)
Sources(n) ==
    IF n = 0 THEN {<<>>}
    ELSE Sources(n - 1) \cup {Append(l, x) : l \in Sources(n - 1), x \in ResolverItems}

\* Resolver::from_iter on one of the sources.
InitResolver ==
    /\ CodecIdle
    /\ NoMachine
    /\ HostIdle
    /\ a_input \in Sources(MaxItems)
    /\ source = a_input
    /\ iterated = FALSE /\ labels = <<>> /\ mem_pins = <<>> /\ r_data = <<>>
    /\ a_phase = "resolving"
    /\ a_out = NoResult
    /\ tokens = <<>> /\ pending_lex = <<>> /\ lexed = <<>>
    /\ p_tokens = <<>> /\ parsed = <<>>

\* resolver.resolve()
Resolve ==
    /\ a_phase = "resolving"
    /\ \E o \in {resolve([iterated |-> iterated, source |-> source, labels |-> labels,
                          mem_pins |-> mem_pins, data |-> r_data], overflow_checks)} :
          /\ iterated' = o.r.iterated
          /\ source' = o.r.source
          /\ labels' = o.r.labels
          /\ mem_pins' = o.r.mem_pins
          /\ r_data' = o.r.data
          /\ a_out' = o.res
    /\ a_phase' = "resolved"
    /\ UNCHANGED <<a_input, lexerVars, parserVars, codecVars, machineVars, hostVars>>

SpecResolver == InitResolver /\ [][Resolve]_vars

(***************************************************************************)
(* The screen on its own (core/src/screen.rs): a fresh Screen on which the *)
(* three operations are called in any order.  last_op records the call.    *)
(* The sprites are drawn in the last row, at its start and near its end.   *)
(***************************************************************************)
\* Screen::mark_drawn: the flag after it.
mark_drawn(flag) == FALSE

ScreenXs == {0, 60}
ScreenYs == {31}
ScreenSprites == {<<>>, <<128>>, <<192, 129>>}

\* Screen::new()
InitScreen ==
    /\ CodecIdle
    /\ AsmIdle
    /\ memory = <<>> /\ v = <<>> /\ i = 0 /\ timer = 0 /\ sound = 0 /\ pc = 0 /\ stack_ptr = 0
    /\ buffer = BlankBuffer
    /\ pending_draw = FALSE
    /\ overflow_checks = FALSE
    /\ result = NoStep /\ phase = "screen" /\ last_op = NoOp /\ env = NoEnv
    /\ frames = <<>> /\ run = NoRun
    /\ pressed_key = NoKey /\ pressed_key_event = NoEvent /\ worker = [at |-> "none"]
    /\ got = NoKey /\ published = NoKey
    /\ drawn = BlankBuffer

ScreenFrame ==
    UNCHANGED <<cpuVars, overflow_checks, result, phase, env, frames, run, codecVars, asmVars,
                pressed_key, pressed_key_event, worker, got, published>>

\* screen.draw_sprite(x, y, sprite)
DrawSprite ==
    /\ phase = "screen"
    /\ \E x \in ScreenXs, y \in ScreenYs, sprite \in ScreenSprites :
          \E d \in {draw_sprite(buffer, x, y, sprite)} :
              /\ buffer' = d.buffer
              /\ pending_draw' = d.pending_draw
              /\ last_op' = [op |-> "draw_sprite", x |-> x, y |-> y, sprite |-> sprite,
                             ret |-> d.ret]
    /\ drawn' = drawn
    /\ ScreenFrame

\* screen.clear()
Clear ==
    /\ phase = "screen"
    /\ buffer' = clear(buffer)
    /\ last_op' = [op |-> "clear"]
    /\ UNCHANGED <<pending_draw, drawn>>
    /\ ScreenFrame

\* screen.mark_drawn(), called when the buffer has been rendered.
MarkDrawn ==
    /\ phase = "screen"
    /\ pending_draw' = mark_drawn(pending_draw)
    /\ drawn' = buffer
    /\ last_op' = [op |-> "mark_drawn"]
    /\ UNCHANGED buffer
    /\ ScreenFrame

SpecScreen == InitScreen /\ [][DrawSprite \/ Clear \/ MarkDrawn]_vars

(***************************************************************************)
(* The input port of the terminal host (cli/src/cli.rs): the keyboard      *)
(* thread spawned by watch_for_key and the CPU loop, which calls get_key.  *)
(* Each access of a lock is one step; the two threads interleave freely.   *)
(* The worker stands at "read" (blocked in event::read), at "store" (it    *)
(* has the event and its hex), at "publish", or at "sleep".                *)
(***************************************************************************)
\* The events event::read() delivers: a hex key, another key (code 16), Ctrl-C
\* (code 17), and an event that is no key event (code 18).
HexKeys == KeyInputs \ {NoKey}
Events ==
    {[key |-> TRUE, code |-> k] : k \in HexKeys}
    \cup {[key |-> TRUE, code |-> 16], [key |-> TRUE, code |-> 17],
          [key |-> FALSE, code |-> 18]}

\* The match at 40-56: the hex digit of a key event, if it is one.
hex_of(event) == IF event.key /\ event.code \in 0..15 THEN event.code ELSE NoKey

\* Option::replace and Option::take on the locked value: the value left there.
replace(cell, value) == value
take_keeps_value(cell) == cell
take(cell) == NoKey

\* <CLIManager as Chip8Input>::get_key
get_key(cell) == cell

\* CLIManager::new and watch_for_key: the thread is spawned and blocks in read.
InitInput ==
    /\ CodecIdle
    /\ AsmIdle
    /\ NoMachine
    /\ pressed_key = NoKey
    /\ pressed_key_event = NoEvent
    /\ worker = [at |-> "read"]
    /\ got = NoKey
    /\ published = NoKey
    /\ drawn = <<>>

InputFrame == UNCHANGED <<drawn, codecVars, machineVars, asmVars>>

\* event::read() returns an event (39-56).
WorkerRead ==
    /\ worker.at = "read"
    /\ \E event \in Events :
          worker' = [at |-> "store", event |-> event, hex |-> hex_of(event)]
    /\ UNCHANGED <<pressed_key, pressed_key_event, got, published>>
    /\ InputFrame

\* 58-60, and the test at 62.
WorkerStore ==
    /\ worker.at = "store"
    /\ pressed_key_event' = IF worker.event.key THEN replace(pressed_key_event, worker.event)
                            ELSE pressed_key_event
    /\ worker' = IF worker.hex # NoKey THEN [at |-> "publish", hex |-> worker.hex]
                 ELSE [at |-> "read"]
    /\ UNCHANGED <<pressed_key, got, published>>
    /\ InputFrame

\* 63: pressed_key.write().unwrap().replace(key)
WorkerPublish ==
    /\ worker.at = "publish"
    /\ pressed_key' = replace(pressed_key, worker.hex)
    /\ published' = worker.hex
    /\ worker' = [at |-> "sleep"]
    /\ UNCHANGED <<pressed_key_event, got>>
    /\ InputFrame

\* 64-65: the sleep of 50 ms is over; pressed_key.write().unwrap().take()
WorkerClear ==
    /\ worker.at = "sleep"
    /\ pressed_key' = take(pressed_key)
    /\ published' = NoKey
    /\ worker' = [at |-> "read"]
    /\ UNCHANGED <<pressed_key_event, got>>
    /\ InputFrame

\* The CPU loop: a step that reads the keys calls get_key (97-101).
GetKey ==
    /\ worker.at # "none"
    /\ got' = get_key(pressed_key)
    /\ UNCHANGED <<pressed_key, pressed_key_event, worker, published>>
    /\ InputFrame

\* The CPU loop in debugger mode: pressed_key_event.write().unwrap().take()
\* (main.rs 73).
TakeKeyEvent ==
    /\ worker.at # "none"
    /\ pressed_key_event # NoEvent
    /\ pressed_key_event' = NoEvent
    /\ UNCHANGED <<pressed_key, worker, got, published>>
    /\ InputFrame

NextInput ==
    WorkerRead \/ WorkerStore \/ WorkerPublish \/ WorkerClear \/ GetKey \/ TakeKeyEvent

SpecInput == InitInput /\ [][NextInput]_vars

\* The worker thread is scheduled and its sleep ends: it does not stop between
\* getting an event and going back to read.
SpecInputLive ==
    /\ InitInput
    /\ [][NextInput]_vars
    /\ WF_vars(WorkerStore) /\ WF_vars(WorkerPublish) /\ WF_vars(WorkerClear)

(***************************************************************************)
(* Properties of the codec (SpecCodec).                                    *)
(***************************************************************************)

\* C1: for every opcode value with fields in range, decoding the two bytes that
\* encoding it produced yields the same opcode value: decode(encode(op)) = op.
C1_DecodeOfEncode ==
    c_phase = "op_roundtrip" => c_res = [ok |-> TRUE, op |-> c_op]

\* C2: for every 16-bit word that decodes successfully, encoding the decoded
\* opcode gives back the two bytes of the word: encode(decode(w)) = w.
C2_EncodeOfDecode ==
    c_phase = "word_roundtrip" => c_back = c_bytes

\* The nibble tuples the decode table lists.
C3_Listed(n1, n3, n4) ==
    \/ n1 \in {0, 1, 2, 3, 4, 6, 7, 10, 11, 12, 13}
    \/ n1 = 5 /\ n4 = 0
    \/ n1 = 8 /\ n4 \in {0, 1, 2, 3, 4, 5, 6, 7, 14}
    \/ n1 = 9 /\ n4 = 0
    \/ n1 = 14 /\ <<n3, n4>> \in {<<9, 14>>, <<10, 1>>}
    \/ n1 = 15 /\ <<n3, n4>> \in {<<0, 7>>, <<0, 10>>, <<1, 5>>, <<1, 8>>, <<1, 14>>,
                                  <<2, 9>>, <<3, 3>>, <<5, 5>>, <<6, 5>>}

\* C3: decoding a byte pair fails exactly when its nibble tuple matches none of the
\* listed patterns; the failure is InvalidOpcode carrying the raw word hi*256+lo;
\* where several patterns match the earlier wins: 00E0 and 00EE decode as CLS and
\* RET, every other word of class 0 as SYS.
C3_DecodeFailsExactlyOffTable ==
    c_phase = "decoded" =>
        LET hi == c_bytes[1]
            lo == c_bytes[2]
            w == hi * 256 + lo
        IN  /\ c_res.ok <=> C3_Listed(hi \div 16, lo \div 16, lo % 16)
            /\ ~c_res.ok => c_res = [ok |-> FALSE, err |-> "InvalidOpcodeError", word |-> w]
            /\ w = 224 => c_res.op = [op |-> "_00E0"]
            /\ w = 238 => c_res.op = [op |-> "_00EE"]
            /\ (hi \div 16 = 0 /\ w \notin {224, 238}) => c_res.op = [op |-> "_0NNN", nnn |-> w]

\* A word off the table (8ABF) has been decoded, and the decode failed.
C3_Witness ==
    /\ c_phase = "decoded"
    /\ c_bytes = <<138, 191>>
    /\ ~c_res.ok

(***************************************************************************)
(* Properties of the call stack and the program counter (Spec).            *)
(***************************************************************************)

\* C4: call/return round trip: in an unbroken run of 2NNN and 00EE steps every
\* return lands on the newest call not yet returned, restoring PC to that call's
\* address + 2 and SP to its value before the call; so d nested calls followed by
\* d returns unwind in LIFO order.
C4_CallReturnLaw ==
    [][(last_op'.op = "_00EE" /\ result' = [ok |-> TRUE] /\ run.open > 0) =>
            /\ pc' = Head(frames).ret
            /\ stack_ptr' = Head(frames).sp]_vars

\* Two nested calls have been unwound by two returns: back at 0x202 with SP 0xFFF.
C4_Witness ==
    /\ last_op.op = "_00EE"
    /\ result = [ok |-> TRUE]
    /\ run.open = 0
    /\ run.closed >= 2
    /\ pc = 514
    /\ stack_ptr = 4095

\* C5: 00EE executed with an empty stack (SP = 0xFFF) makes step() return the
\* StackUnderflow error, and SP is left as it was.
C5_UnderflowIsSignalled ==
    [][(last_op'.op = "_00EE" /\ stack_ptr = 4095) =>
            /\ result' = [ok |-> FALSE, err |-> "StackUnderflowError"]
            /\ stack_ptr' = 4095]_vars

\* C6: after any step that returned (Ok or an error), PC < 0x1000, V has 16
\* entries and memory has 4096 bytes.
C6_PcInsideMemory ==
    (phase = "loaded" /\ result # NoStep /\ result # PanicResult) =>
        /\ pc < 4096
        /\ DOMAIN v = 0..15
        /\ DOMAIN memory = 0..4095

\* C7: in every reachable state SP is odd, at most 0xFFF, and equal to 0xFFF minus
\* twice the number of calls not yet returned.
C7_StackPointerLaw ==
    phase \in {"new", "loaded"} =>
        /\ stack_ptr % 2 = 1
        /\ stack_ptr <= 4095
        /\ stack_ptr = 4095 - 2 * Len(frames)

(***************************************************************************)
(* Properties of the arithmetic instructions (SpecAlu).                    *)
(***************************************************************************)

\* C8: 8XY4 with a = V[x], b = V[y] before the step: afterwards V[F] = 1 iff
\* a + b > 255 (also when x or y is F), V[x] = (a + b) mod 256 when x is not F,
\* V[y] is unchanged when y is neither x nor F, and PC has advanced by 2.
C8_AddCarryLaw ==
    [][last_op'.op = "_8XY4" =>
            LET x == last_op'.x
                y == last_op'.y
                a == v[x]
                b == v[y]
            IN  /\ result' = [ok |-> TRUE]
                /\ v'[15] = IF a + b > 255 THEN 1 ELSE 0
                /\ x # 15 => v'[x] = (a + b) % 256
                /\ (y # x /\ y # 15) => v'[y] = b
                /\ pc' = pc + 2]_vars

\* VF + V1 has been executed with V1 = 128 and a carry: the carry is in VF.
C8_Witness ==
    /\ last_op = [op |-> "_8XY4", x |-> 15, y |-> 1]
    /\ result = [ok |-> TRUE]
    /\ v[1] = 128
    /\ v[15] = 1

\* C9: 8XY5 with a = V[x], b = V[y] before the step: afterwards V[F] = 1 iff
\* a >= b, V[x] = (a - b) mod 256 when x is not F, and V[y] is unchanged when y is
\* neither x nor F.
C9_SubBorrowLaw ==
    [][last_op'.op = "_8XY5" =>
            LET x == last_op'.x
                y == last_op'.y
                a == v[x]
                b == v[y]
            IN  /\ result' = [ok |-> TRUE]
                /\ v'[15] = IF a >= b THEN 1 ELSE 0
                /\ x # 15 => v'[x] = (a - b) % 256
                /\ (y # x /\ y # 15) => v'[y] = b]_vars

\* V0 - V1 has been executed with V0 = V1 = 0x80: no borrow, VF = 1, V0 = 0.
C9_Witness ==
    /\ last_op = [op |-> "_8XY5", x |-> 0, y |-> 1]
    /\ result = [ok |-> TRUE]
    /\ v[0] = 0
    /\ v[1] = 128
    /\ v[15] = 1

\* C10: 8XY7 with a = V[x], b = V[y] before the step: afterwards V[F] = 1 iff
\* b >= a, V[x] = (b - a) mod 256 when x is not F, and V[y] is unchanged when y is
\* neither x nor F.
C10_SubReverseLaw ==
    [][last_op'.op = "_8XY7" =>
            LET x == last_op'.x
                y == last_op'.y
                a == v[x]
                b == v[y]
            IN  /\ result' = [ok |-> TRUE]
                /\ v'[15] = IF b >= a THEN 1 ELSE 0
                /\ x # 15 => v'[x] = (b - a) % 256
                /\ (y # x /\ y # 15) => v'[y] = b]_vars

\* V1 := V0 - V1 has been executed with V1 = 0x80, V0 = 0x7F: a borrow, VF = 0,
\* V1 = 0xFF.
C10_Witness ==
    /\ last_op = [op |-> "_8XY7", x |-> 1, y |-> 0]
    /\ result = [ok |-> TRUE]
    /\ v[0] = 127
    /\ v[1] = 255
    /\ v[15] = 0

(***************************************************************************)
(* Properties of the shift and logic instructions (SpecShift, SpecLogic).  *)
(***************************************************************************)

\* C11: 8XY6 and 8XYE shift V[y], not V[x]: with b = V[y] before the step, 8XY6
\* gives V[x] = b >> 1 and VF = b & 1, 8XYE gives V[x] = (b << 1) mod 256 and
\* VF = b >> 7; VF receives the bit shifted out (also when x is F), and V[y] keeps
\* b when y is neither x nor F.
C11_ShiftLaw ==
    [][last_op'.op \in {"_8XY6", "_8XYE"} =>
            LET x == last_op'.x
                y == last_op'.y
                b == v[y]
                right == last_op'.op = "_8XY6"
            IN  /\ result' = [ok |-> TRUE]
                /\ v'[15] = IF right THEN b % 2 ELSE b \div 128
                /\ x # 15 => v'[x] = IF right THEN b \div 2 ELSE (b * 2) % 256
                /\ (y # x /\ y # 15) => v'[y] = b
                /\ pc' = pc + 2]_vars

\* V0 := V1 >> 1 has been executed with V0 = 0 and V1 = 0xFF before: V0 = 0x7F
\* comes from V1, the bit shifted out is in VF.
C11_Witness ==
    /\ last_op = [op |-> "_8XY6", x |-> 0, y |-> 1]
    /\ result = [ok |-> TRUE]
    /\ memory[513] = 0
    /\ v[0] = 127
    /\ v[1] = 255
    /\ v[15] = 1

\* C12: after 8XY1, 8XY2 or 8XY3, VF = 0 whatever x, y and the registers held,
\* and for x other than F V[x] is the OR, AND or XOR of the previous V[x] and
\* V[y]; V[y] is unchanged when y is neither x nor F.
C12_LogicLaw ==
    [][last_op'.op \in {"_8XY1", "_8XY2", "_8XY3"} =>
            LET x == last_op'.x
                y == last_op'.y
                a == v[x]
                b == v[y]
                k == last_op'.op
                \* bit by bit: OR is the larger bit, AND the product, XOR the sum mod 2
                bitOf(n, j) == (n \div (2 ^ j)) % 2
                combine(p, q) ==
                    IF k = "_8XY1" THEN (IF p + q > 0 THEN 1 ELSE 0)
                    ELSE IF k = "_8XY2" THEN p * q
                    ELSE (p + q) % 2
            IN  /\ result' = [ok |-> TRUE]
                /\ v'[15] = 0
                /\ x # 15 =>
                      \A j \in 0..7 : bitOf(v'[x], j) = combine(bitOf(a, j), bitOf(b, j))
                /\ x # 15 => v'[x] \in 0..255
                /\ (y # x /\ y # 15) => v'[y] = b]_vars

\* VF := VF | V1 has been executed with VF = 0xFF before: VF is 0 all the same.
C12_Witness ==
    /\ last_op = [op |-> "_8XY1", x |-> 15, y |-> 1]
    /\ result = [ok |-> TRUE]
    /\ memory[513] = 255
    /\ v[15] = 0

(***************************************************************************)
(* Properties of the skips and jumps.                                      *)
(***************************************************************************)

C14_JumpOffsetLaw ==
    [][(last_op'.op = "_BNNN" /\ result' = [ok |-> TRUE]) =>
            pc' = last_op'.nnn + v[0]]_vars

(***************************************************************************)
(* Properties of the key wait (SpecKey).                                   *)
(***************************************************************************)

\* C15: when the instruction at PC is FX0A and get_key() returns None, step()
\* returns success and leaves PC, SP, I, every V register, memory and the
\* framebuffer unchanged; only the timers may change, by the timer tick.
C15_KeyWaitChangesNothing ==
    [][(last_op'.op = "_FX0A" /\ env'.key = NoKey) =>
            /\ result' = [ok |-> TRUE]
            /\ pc' = pc
            /\ stack_ptr' = stack_ptr
            /\ i' = i
            /\ v' = v
            /\ memory' = memory
            /\ buffer' = buffer
            /\ timer' = IF env'.tick /\ timer > 0 THEN timer - 1 ELSE timer
            /\ sound' = IF env'.tick /\ sound > 0 THEN sound - 1 ELSE sound]_vars

\* A step has waited at the FX0A at 0x206 with no key while a timer period
\* elapsed: the timer has gone from 2 to 1, PC is still 0x206.
C15_Witness ==
    /\ last_op.op = "_FX0A"
    /\ env = [tick |-> TRUE, key |-> NoKey, val |-> 0]
    /\ result = [ok |-> TRUE]
    /\ pc = 518
    /\ timer = 1

(***************************************************************************)
(* Properties of sprite drawing (SpecDraw).                                *)
(***************************************************************************)

\* C16: drawing a sprite twice at the same (x, y) leaves the framebuffer as it was
\* before the first draw; the first draw, into a blank area, reports no collision
\* and the second draw (of a sprite that has a lit bit) reports one.  In the
\* drawing programs the first DXYN leaves PC at 0x208 and the second at 0x20A, and
\* the framebuffer is blank before the first.
C16_DrawTwiceRestores ==
    (phase = "loaded" /\ last_op.op = "_DXYN" /\ result = [ok |-> TRUE]) =>
        LET lit == \E k \in 0..(last_op.n - 1) : memory[i + k] # 0
        IN  /\ pc = 520 => v[15] = 0
            /\ pc = 522 => (buffer = BlankBuffer /\ (lit => v[15] = 1))

\* C17: when a draw reaches a pixel whose byte index lies beyond the 256-byte
\* framebuffer, the DXYN step does not fault and stores in VF the collision flag
\* accumulated over the pixels already blitted: 1 iff one of them went from set
\* to unset.
C17_OverflowKeepsCollision ==
    [][(/\ last_op'.op = "_DXYN"
        /\ \E row \in 0..(last_op'.n - 1), bit \in 0..7 :
              ((v[last_op'.y] % SCREEN_HEIGHT) * SCREEN_WIDTH + row * SCREEN_WIDTH
                  + (v[last_op'.x] % SCREEN_WIDTH) + bit) \div 8
              >= SCREEN_BUFFER_SIZE_COMPRESSED)
       =>
            /\ result' = [ok |-> TRUE]
            /\ v'[15] = IF \E a \in DOMAIN buffer :
                               BitAnd(buffer[a], 255 - buffer'[a]) # 0
                         THEN 1 ELSE 0]_vars

(***************************************************************************)
(* Properties of construction and reset (Spec).                            *)
(***************************************************************************)

\* C18: the 80 bytes of font data are at memory[0x50..0xA0] right after
\* construction and right after every reset(), whatever ran before.
C18_FontAfterNewAndReset ==
    phase = "new" =>
        \A k \in 1..Len(FONT_BUFFER) : memory[FONT_START_ADDR + k - 1] = FONT_BUFFER[k]

\* C19: reset(), called in any reachable state, leaves PC = 0x200, SP = 0xFFF,
\* every V register, I, timer and sound 0, the program area of memory and the
\* framebuffer all zero; the machine is the freshly constructed one, so that a
\* program loaded and run after it behaves as on a new CPU.
C19_ResetIsFresh ==
    [][(phase = "loaded" /\ phase' = "new") =>
            /\ pc' = 512
            /\ stack_ptr' = 4095
            /\ \A r \in 0..15 : v'[r] = 0
            /\ i' = 0
            /\ timer' = 0
            /\ sound' = 0
            /\ \A a \in PGRM_LOAD_START_ADDR..(MEMORY_SIZE - 1) : memory'[a] = 0
            /\ buffer' = BlankBuffer
            /\ memory' = new.memory]_vars

(***************************************************************************)
(* Properties of the register store and load (SpecStore).                  *)
(***************************************************************************)

\* C20: an FX55 step that returns, executed with I = i, has copied V[0..=x] to
\* memory[i..=i+x], changed no register and set I = i + x + 1; an FX65 step that
\* returns has copied memory[i..=i+x] into V[0..=x], changed no memory and no
\* register above x and set I = i + x + 1; so FX55 followed by FX65 from the same
\* I restores V[0..=x] (in the store programs: to the bytes a and b of the first
\* two LOADs, at 0x201 and 0x203, whatever was loaded in between).
C20_StoreLoadLaw ==
    [][(last_op'.op \in {"_FX55", "_FX65"} /\ result' = [ok |-> TRUE]) =>
            LET x == last_op'.x
            IN  /\ i' = i + x + 1
                /\ pc' = pc + 2
                /\ last_op'.op = "_FX55" =>
                      /\ \A r \in 0..x : memory'[i + r] = v[r]
                      /\ v' = v
                /\ last_op'.op = "_FX65" =>
                      /\ \A r \in 0..x : v'[r] = memory[i + r]
                      /\ \A r \in (x + 1)..15 : v'[r] = v[r]
                      /\ memory' = memory
                      /\ v'[0] = memory[513]
                      /\ v'[1] = IF x >= 1 THEN memory[515] ELSE 165]_vars

\* V0 = 0xFF and V1 = 0x7F were stored at 0x300, overwritten in the registers,
\* and have been read back: I is 0x302.
C20_Witness ==
    /\ last_op = [op |-> "_FX65", x |-> 1]
    /\ result = [ok |-> TRUE]
    /\ pc = 528
    /\ v[0] = 255
    /\ v[1] = 127
    /\ memory[768] = 255
    /\ memory[769] = 127
    /\ i = 770

\* C21: an FX33 step that returns writes the decimal digits of V[x] at I, I+1, I+2:
\* hundreds = v / 100, tens = (v / 10) mod 10, ones = v mod 10, each within 0..9
\* and 100 * hundreds + 10 * tens + ones = v; I, every register and every other
\* byte of memory are as before.
C21_BcdLaw ==
    [][(last_op'.op = "_FX33" /\ result' = StepOk) =>
            LET val == v[last_op'.x]
            IN  /\ memory'[i] = val \div 100
                /\ memory'[i + 1] = (val \div 10) % 10
                /\ memory'[i + 2] = val % 10
                /\ \A d \in 0..2 : memory'[i + d] \in 0..9
                /\ 100 * memory'[i] + 10 * memory'[i + 1] + memory'[i + 2] = val
                /\ i' = i /\ v' = v
                /\ \A a \in DOMAIN memory :
                       a \notin {i, i + 1, i + 2} => memory'[a] = memory[a]]_vars

\* 255 in V0 has been written at 0x300 as 2, 5, 5.
C21_Witness ==
    /\ last_op.op = "_FX33" /\ result = StepOk
    /\ v[0] = 255 /\ i = 768
    /\ memory[768] = 2 /\ memory[769] = 5 /\ memory[770] = 5

\* C22: one step ticks the timers at most once: a tick takes exactly 1 from a
\* positive delay or sound timer and leaves a timer at 0 where it is (never 255);
\* without a tick a timer keeps its value; only FX15 (delay) and FX18 (sound)
\* write a timer, so between those writes its value never increases.
C22_TimerLaw ==
    [][(phase' = phase) =>
            LET ticked(t) == IF env'.tick /\ t > 0 THEN t - 1 ELSE t
            IN  /\ last_op'.op # "_FX15" =>
                       timer' = ticked(timer) /\ timer' <= timer /\ timer - timer' <= 1
                /\ last_op'.op # "_FX18" =>
                       sound' = ticked(sound) /\ sound' <= sound /\ sound - sound' <= 1
                /\ (last_op'.op = "_FX15" /\ result' = StepOk) => timer' = v[last_op'.x]
                /\ (last_op'.op = "_FX18" /\ result' = StepOk) => sound' = v[last_op'.x]
                /\ timer' \in 0..255 /\ sound' \in 0..255]_vars

\* The tick of the FX18 step took the delay timer from the 1 that FX15 wrote to 0,
\* and FX18 then wrote 1 into the sound timer.
C22_Witness ==
    /\ env.tick /\ last_op.op = "_FX18" /\ result = StepOk
    /\ v[1] = 1 /\ timer = 0 /\ sound = 1

\* C23: a step whose fetched word does not decode returns InvalidOpcode with that
\* word, a step that fetches 0NNN returns Unimplemented with that opcode; both
\* leave PC, SP, I, V, memory and the framebuffer as they were (so the next step
\* fetches the same word and returns the same error).
C23_RejectedWordChangesNothing ==
    [][(phase' = phase /\ pc + 1 < MEMORY_SIZE) =>
            LET word == try_from(memory[pc], memory[pc + 1])
                kept == /\ pc' = pc /\ stack_ptr' = stack_ptr /\ i' = i /\ v' = v
                        /\ memory' = memory /\ buffer' = buffer
            IN  /\ ~word.ok => result' = word /\ kept
                /\ (word.ok /\ word.op.op = "_0NNN") =>
                       result' = UnimplementedOpcodeError(word.op) /\ kept
                /\ (~result'.ok /\ result' # PanicResult
                        /\ result'.err \in {"InvalidOpcodeError",
                                            "UnimplementedOpcodeError"}) => kept]_vars

\* The word 0x8ABF after LOAD V0, 5 has been rejected: PC still points at it.
C23_Witness ==
    /\ result = InvalidOpcodeError(35519)
    /\ pc = 514 /\ v[0] = 5 /\ memory[514] = 138 /\ memory[515] = 191

\* C24: a token that starts at a letter is the Mnemonic of the longest table entry
\* the text starts with at that place, compared without regard to case (LOADS,
\* never LOAD, for "LOADS"); when no entry matches, it is the Number made of the
\* longest run of number characters if the letter is a hex letter, and otherwise
\* Unknown(letter), after which lexing goes on at the next character.
C24_MnemonicLexLaw ==
    [][(a_phase = "lexing" /\ lexed' # lexed) =>
            LET stream == pending_lex \o tokens
                c == stream[1]
                rest == pending_lex' \o tokens'
                tok == lexed'[Len(lexed')]
                known == {SORTED_MNEUMONICS[k] : k \in DOMAIN SORTED_MNEUMONICS}
                prefixes == {m \in known : starts_with(to_ascii_uppercase(stream), m)}
                digits == CHOOSE n \in 0..Len(stream) :
                              /\ \A j \in 1..n : accepts("number", stream[j])
                              /\ n = Len(stream) \/ ~accepts("number", stream[n + 1])
            IN  c \in Letters =>
                    IF prefixes # {}
                    THEN /\ tok.kind = "Mneumonic"
                         /\ tok.text \in prefixes
                         /\ \A m \in prefixes : Len(m) <= Len(tok.text)
                    ELSE IF c \in HexLetters
                    THEN /\ tok = Token("Number", SubSeq(stream, 1, digits))
                         /\ rest = SubSeq(stream, digits + 1, Len(stream))
                    ELSE /\ tok = Token("Unknown", <<c>>)
                         /\ rest = Tail(stream)]_vars

\* "FAKEloadi" has been lexed as Number(FA), Unknown(K), Number(E), Mnemonic(LOADI).
C24_Witness ==
    /\ a_input = <<"F", "A", "K", "E", "l", "o", "a", "d", "i">>
    /\ lexed = <<Token("Number", <<"F", "A">>), Token("Unknown", <<"K">>),
                 Token("Number", <<"E">>),
                 Token("Mneumonic", <<"L", "O", "A", "D", "I">>)>>

\* C25: of every line made of an optional label, a mnemonic, operands and an
\* optional comment the parser makes exactly one Statement with that label, that
\* opcode, those operands (the Number and Label tokens, in order) and that
\* comment, whatever the blanks and whether or not a further line follows (whose
\* tokens never become operands); a label alone on a line comes out as a Label,
\* a comment alone as a Comment.
C25_OneResultPerLine ==
    a_phase \in {"parsing", "parsed"} =>
        /\ Len(parsed) <= Len(a_input.lines)
        /\ parsed = SubSeq(a_input.lines, 1, Len(parsed))
        /\ a_phase = "parsed" => parsed = a_input.lines

\* ":a SKE 0x1 :b ;c" followed by the line ":a SKE :b" has been parsed to its end
\* into two Statements.
C25_Witness ==
    /\ a_phase = "parsed"
    /\ parsed =
         <<Statement(<<":", "a">>, <<"S", "K", "E">>,
                     <<Token("Number", <<"0", "x", "1">>), Token("Label", <<":", "b">>)>>,
                     <<";", "c">>),
           Statement(<<":", "a">>, <<"S", "K", "E">>, <<Token("Label", <<":", "b">>)>>,
                     None)>>

\* C28: of every operand written as hex digits, bare or after 0x, with a value up
\* to 0xFFFF, the register number is the value mod 16, the 8-bit immediate the
\* value mod 256 and the address the value mod 4096: a value too wide for its
\* field is masked, not rejected.
C28_OperandsAreMasked ==
    a_phase = "masked" =>
        LET value == radix_digits(a_input.digits, 0, 1048575)
        IN  value <= 65535 =>
                /\ a_out.reg = value % 16
                /\ a_out.nn = value % 256
                /\ a_out.nnn = value % 4096

\* C29: the two bytes the assembler emits for a statement decode, with the
\* interpreter's decoder, to the variant the statement names with the same
\* operands, and encoding that decoded opcode gives the two bytes again; CLR is
\* emitted as 0x00E0 and RTS as 0x00EE.
C29_AssembledBytesDecodeBack ==
    (a_phase = "assembled" /\ a_out.opcode.ok) =>
        /\ a_out.decoded = a_out.opcode
        /\ from(a_out.decoded.op) = a_out.bytes
        /\ a_out.opcode.op.op = "_00E0" => a_out.bytes = <<0, 224>>
        /\ a_out.opcode.op.op = "_00EE" => a_out.bytes = <<0, 238>>

\* The statements of a source that resolve() cannot assemble: one with a Label
\* operand that neither a label nor a pin of the source defines, or one that
\* try_from rejects once its labels are numbers.
AsmDefined(items) ==
    {items[k].text : k \in {j \in DOMAIN items : items[j].kind = "Label"}}
    \cup {items[k].label :
             k \in {j \in DOMAIN items : items[j].kind \in {"Statement", "Declaration"}}}

AsmUndefined(items, k) ==
    {j \in DOMAIN items[k].operands :
        /\ items[k].operands[j].kind = "Label"
        /\ items[k].operands[j].text \notin AsmDefined(items)}

AsmFailing(items) ==
    {k \in DOMAIN items :
        /\ items[k].kind = "Statement"
        /\ \/ AsmUndefined(items, k) # {}
           \/ ~try_from_statement(
                  [items[k] EXCEPT !.operands =
                      [j \in DOMAIN @ |-> IF @[j].kind = "Label"
                                          THEN Token("Number", <<"0">>) ELSE @[j]]]).ok}

AsmStatementsBefore(items, k) ==
    Cardinality({j \in 1..(k - 1) : items[j].kind = "Statement"})

RECURSIVE AsmSum(_)
AsmSum(ns) == IF ns = <<>> THEN 0 ELSE Head(ns) + AsmSum(Tail(ns))

\* C26: the label table holds, for every label of the source in order, the address
\* 0x200 + 2 * (number of statements before it); and in the bytes of a source
\* that assembles, a JUMP to a label that the code defines, before or after the
\* jump, is 0x1000 + that address of the label's first definition.
C26_LabelAddresses ==
    (a_phase = "resolved" /\ a_out # PanicResult) =>
        LET items == a_input
            defs == {k \in DOMAIN items :
                        \/ items[k].kind = "Label"
                        \/ items[k].kind = "Statement" /\ items[k].label # None}
            name(k) == IF items[k].kind = "Label" THEN items[k].text ELSE items[k].label
            address(k) == 512 + 2 * AsmStatementsBefore(items, k)
        IN  /\ Len(labels) = Cardinality(defs)
            /\ \A k \in defs :
                   labels[Cardinality({j \in defs : j <= k})] = <<name(k), address(k)>>
            /\ a_out.ok =>
                   \A k \in DOMAIN items :
                       (/\ items[k].kind = "Statement"
                        /\ items[k].opcode = <<"J", "U", "M", "P">>
                        /\ \E d \in defs : name(d) = items[k].operands[1].text) =>
                           LET d == CHOOSE d \in defs :
                                        /\ name(d) = items[k].operands[1].text
                                        /\ \A e \in defs : name(e) = name(d) => d <= e
                               at == 2 * AsmStatementsBefore(items, k)
                           IN  /\ a_out.bytes[at + 1] = 16 + address(d) \div 256
                               /\ a_out.bytes[at + 2] = address(d) % 256

\* ":start SKE 0x0 0x5" and then "JUMP :start" have been assembled to 30 05 12 00.
C26_Witness ==
    /\ a_phase = "resolved"
    /\ Len(a_input) = 2
    /\ a_input[1].kind = "Statement" /\ a_input[1].label = <<":", "s", "t", "a", "r", "t">>
    /\ a_input[2].kind = "Statement" /\ a_input[2].opcode = <<"J", "U", "M", "P">>
    /\ labels = <<<<(<<":", "s", "t", "a", "r", "t">>), 512>>>>
    /\ a_out = [ok |-> TRUE, bytes |-> <<48, 5, 18, 0>>]

\* C27: when some statement of the source cannot be assembled, resolve() returns
\* the error of the first such statement and no bytes at all: UnknownLabel with
\* the name of its first undefined Label operand, or else the InvalidStatement
\* of that statement; when every statement can be assembled, no error is returned.
C27_FirstErrorStopsEmission ==
    (a_phase = "resolved" /\ a_out # PanicResult) =>
        \A failing \in {AsmFailing(a_input)} :
            /\ failing = {} => a_out.ok
            /\ \A k \in failing :
                   (\A j \in failing : k <= j) =>
                       \A undefined \in {AsmUndefined(a_input, k)} :
                           /\ ~a_out.ok
                           /\ "bytes" \notin DOMAIN a_out
                           /\ undefined # {} =>
                                  a_out = UnknownLabelError(
                                      a_input[k].operands[
                                          CHOOSE j \in undefined :
                                              \A n \in undefined : j <= n].text)
                           /\ undefined = {} =>
                                  /\ a_out.err = "InvalidStatementError"
                                  /\ a_out.statement.opcode = a_input[k].opcode
                                  /\ a_out.statement.label = a_input[k].label

\* After a statement that assembles, "JUMP :nope" has stopped the assembly with
\* UnknownLabel(:nope) although a statement short of an operand follows it.
C27_Witness ==
    /\ a_phase = "resolved"
    /\ Len(a_input) = 3
    /\ a_input[1].kind = "Statement" /\ a_input[1].opcode = <<"S", "K", "E">>
    /\ a_input[2].kind = "Statement" /\ a_input[2].opcode = <<"J", "U", "M", "P">>
    /\ a_input[3].kind = "Statement" /\ a_input[3].opcode = <<"L", "O", "A", "D">>
    /\ a_out = UnknownLabelError(<<":", "n", "o", "p", "e">>)

\* C30: a source whose statements all assemble yields the code bytes followed by
\* each pin's payload in declaration order: exactly the declared size (the size
\* given, else the number of members), the member bytes first and zeros after
\* them, all zeros for a pin declared with a size only; and a JUMP to a pin's
\* label carries 0x200 + 2 * statements + the sizes of the pins before it.
C30_PinsFollowCode ==
    (a_phase = "resolved" /\ AsmFailing(a_input) = {}) =>
        LET items == a_input
            pins == {k \in DOMAIN items : items[k].kind = "Declaration"}
            code == 2 * Cardinality({k \in DOMAIN items : items[k].kind = "Statement"})
            size(k) == IF items[k].size # NoToken THEN strip_hex_u16(items[k].size.text)
                       ELSE Len(items[k].members)
            member(k, n) == IF items[k].members # NoMembers /\ n <= Len(items[k].members)
                            THEN strip_hex_u8(items[k].members[n].text) ELSE 0
            before(k) == AsmSum([j \in 1..k |-> IF j \in pins THEN size(j) ELSE 0])
        IN  /\ a_out.ok
            /\ Len(a_out.bytes) = code + before(Len(items))
            /\ \A k \in pins : \A n \in 1..size(k) :
                   a_out.bytes[code + before(k - 1) + n] = member(k, n)
            /\ \A k \in DOMAIN items :
                   (/\ items[k].kind = "Statement"
                    /\ items[k].opcode = <<"J", "U", "M", "P">>
                    /\ items[k].operands[1].text \notin
                           {l[1] : l \in {labels[j] : j \in DOMAIN labels}}) =>
                       LET p == CHOOSE p \in pins :
                                    /\ items[p].label = items[k].operands[1].text
                                    /\ \A q \in pins :
                                           items[q].label = items[p].label => p <= q
                           at == 2 * AsmStatementsBefore(items, k)
                           address == 512 + code + before(p - 1)
                       IN  /\ a_out.bytes[at + 1] = 16 + address \div 256
                           /\ a_out.bytes[at + 2] = address % 256

(***************************************************************************)
(* Properties of the screen and of memory regions (SpecDraw, SpecScreen,   *)
(* Spec, SpecStack, SpecStore).                                            *)
(***************************************************************************)

\* C31: every framebuffer pixel a DXYN step changes is at column (x mod 64) + b
\* and row (y mod 32) + r for a sprite row r and a bit b in 0..7, and that
\* column is at most 63: nothing is drawn on another row or at the left edge.
C31_OnlyOriginWraps ==
    [][(last_op'.op = "_DXYN" /\ result' = [ok |-> TRUE]) =>
            \A a \in DOMAIN buffer : \A q \in 0..7 :
                BitAnd(BitXor(buffer[a], buffer'[a]), Shl8(1, 7 - q)) # 0 =>
                    LET column == (a * 8 + q) % SCREEN_WIDTH
                        line == (a * 8 + q) \div SCREEN_WIDTH
                    IN  \E r \in 0..(last_op'.n - 1), b \in 0..7 :
                            /\ column = (v[last_op'.x] % SCREEN_WIDTH) + b
                            /\ line = (v[last_op'.y] % SCREEN_HEIGHT) + r]_vars

\* C32: whenever the framebuffer differs from its content at the last
\* mark_drawn, pending_draw is true; and pending_draw becomes true only in a
\* draw_sprite that blitted at least one bit (its sprite has a row).
C32_DirtyFlag ==
    /\ [](phase = "screen" => (buffer # drawn => pending_draw))
    /\ [][(phase = "screen" /\ ~pending_draw /\ pending_draw') =>
              (last_op'.op = "draw_sprite" /\ Len(last_op'.sprite) > 0)]_vars

\* C33: load_program and every step leave the 80 bytes of memory[0x50..0xA0] as
\* they were, so that from construction on, as long as there is no reset, they
\* are the font.
C33_FontIsNeverOverwritten ==
    [][phase' = "loaded" =>
           \A a \in FONT_START_ADDR..(FONT_START_ADDR + Len(FONT_BUFFER) - 1) :
               memory'[a] = memory[a]]_vars

\* C34: in every reachable state I <= 0xFFF.
C34_IndexWithinMemory ==
    phase = "loaded" => i <= 4095

(***************************************************************************)
(* Properties of the key wait and of the input port (SpecKeyLive,          *)
(* SpecInput).                                                             *)
(***************************************************************************)

\* C35: a step at an FX0A leaves PC and the registers as they are when get_key()
\* returns None; when it returns Some(k) the step stores k in V[x], leaves the
\* other registers and advances PC by 2; and when the host keeps stepping and a
\* key is eventually present during a step, a machine waiting at an FX0A
\* eventually leaves it.
C35_KeyWaitProtocol ==
    /\ [][last_op'.op = "_FX0A" =>
              /\ result' = [ok |-> TRUE]
              /\ env'.key = NoKey => (pc' = pc /\ v' = v)
              /\ env'.key # NoKey =>
                     /\ pc' = pc + 2
                     /\ v'[last_op'.x] = env'.key
                     /\ \A r \in DOMAIN v : r # last_op'.x => v'[r] = v[r]]_vars
    /\ KeyAwaited ~> ~KeyAwaited

\* The FX0A at 0x206 has waited through at least one step without a key (the
\* sound timer, set to 2 just before it, has run out) and has then taken key F
\* into V0 and moved on.
C35_Witness ==
    /\ last_op = [op |-> "_FX0A", x |-> 0]
    /\ env.key = 15
    /\ v[0] = 15
    /\ v[1] = 2
    /\ sound = 0
    /\ pc = 520

\* C36: with the keyboard worker and the CPU loop interleaved in any way, every
\* get_key() returns None or the key the worker published last and has not yet
\* cleared; the worker publishes a key only when the previous one has been
\* cleared; and every published key is eventually cleared back to None.
C36_InputPort ==
    /\ [][GetKey => (got' = NoKey \/ got' = published)]_vars
    /\ [][WorkerPublish => (pressed_key = NoKey /\ published = NoKey)]_vars
    /\ (pressed_key # NoKey) ~> (pressed_key = NoKey)

\* The CPU loop has read key F while the worker sleeps after publishing it.
C36_Witness ==
    /\ worker.at = "sleep"
    /\ pressed_key_event = [key |-> TRUE, code |-> 15]
    /\ pressed_key = 15
    /\ got = 15
    /\ published = 15

(***************************************************************************)
(* Properties of the lexer as a whole (SpecLexer).                         *)
(***************************************************************************)

\* The texts of the tokens, one after the other, are the text: each token's
\* text is the next characters of it, a mnemonic's in upper case.
RECURSIVE LexedCovers(_, _)
LexedCovers(toks, text) ==
    IF toks = <<>> THEN text = <<>>
    ELSE \A n \in {Len(Head(toks).text)} :
             /\ n <= Len(text)
             /\ Head(toks).text = IF Head(toks).kind = "Mneumonic"
                                  THEN to_ascii_uppercase(SubSeq(text, 1, n))
                                  ELSE SubSeq(text, 1, n)
             /\ LexedCovers(Tail(toks), SubSeq(text, n + 1, Len(text)))

\* C37: when the lexer has reached the end of its input, the texts of the tokens
\* it has emitted, in order, are the input, but for the upper case of mnemonics:
\* no character is lost, added or moved.
C37_LexerKeepsEveryCharacter ==
    a_phase = "lexed" => LexedCovers(lexed, a_input)

(***************************************************************************)
(* Properties of the stack region and of faults (SpecStack, Spec).         *)
(***************************************************************************)

\* C38: every byte a 2NNN step writes is at an address in 0xEA0..=0xFFF, the
\* region reserved for the call stack, whatever the depth of the nested calls.
C38_StackStaysInRegion ==
    [][(phase' = "loaded" /\ last_op'.op = "_2NNN" /\ result' # PanicResult) =>
           \A a \in DOMAIN memory :
               memory'[a] # memory[a] => a \in 3744..STACK_TOP]_vars

\* C39: no step faults: whatever program is loaded, a step ends in Ok or in one
\* of the named errors, never in a panic from an index outside 0..4095 or from
\* the overflow of a 16-bit addition on PC, SP or I.
C39_StepNeverFaults ==
    phase \in {"new", "loaded"} => result # PanicResult

(***************************************************************************)
(* Termination of the lexer (SpecLexerLive).                               *)
(***************************************************************************)

\* C40: lexing terminates: every call of next() that finds a character leaves
\* fewer characters in the input and the pushback buffer together than it
\* found, and returns a token; a call that finds both empty returns None; so
\* for every text the stream reaches its None.
C40_LexingTerminates ==
    /\ [][a_phase = "lexing" =>
              IF tokens = <<>> /\ pending_lex = <<>>
              THEN a_out' = NoToken /\ a_phase' = "lexed"
              ELSE /\ a_out' # NoToken
                   /\ a_phase' = "lexing"
                   /\ Len(tokens') + Len(pending_lex')
                          < Len(tokens) + Len(pending_lex)]_vars
    /\ <>(a_phase = "lexed")

\* "CLRS" has been lexed to its end: CLR, whose call pushed the character C
\* back, then the number C lexed from the pushback buffer, then None.
C40_Witness ==
    /\ a_phase = "lexed"
    /\ a_input = <<"C", "L", "R", "S">>
    /\ lexed = <<Token("Mneumonic", <<"C", "L", "R">>), Token("Number", <<"C">>)>>
    /\ tokens = <<>>
    /\ pending_lex = <<>>
    /\ a_out = NoToken

====
